---------------------------- MODULE Spec2Model ----------------------------
(***************************************************************************)
(* A model of the go-streamdeck protocol engine: the outbound framer       *)
(* (rawWriteToButton, rawWriteToArea and the public write operations in    *)
(* front of them) and the inbound decoder (eventListener).                 *)
(*                                                                         *)
(* Bytes are integers in 0..255.  A Go slice is a sequence; Go index k is  *)
(* TLA+ index k+1.                                                         *)
(***************************************************************************)
EXTENDS Integers, Sequences, FiniteSets, TLC

(***************************************************************************)
(* Bounds of the model.                                                    *)
(***************************************************************************)
\* Payload lengths reach MaxPages full chunks, give or take MaxSlack bytes.
MaxPages == 2
MaxSlack == 1
\* The decoder's clock advances by TickMs up to MaxTime (ms).
MaxTime == 240
TickMs == 60
\* Reports vary the state bytes of the first MaxKeys buttons only.
MaxKeys == 1
\* A session is followed for MaxSessionMs of its clock and MaxReplies
\* keep-alive replies.
MaxSessionMs == 7000
MaxReplies == 2
\* The longest of the short serials tried.
MaxSerial == 4
\* At most MaxRegistered descriptors are registered, and hid.Enumerate returns
\* at most MaxDevices devices.
MaxRegistered == 2
MaxDevices == 2
\* A caller sets the brightness MaxBrightnessCalls times.
MaxBrightnessCalls == 2

(***************************************************************************)
(* Descriptors (devices/*.go): the values handed to RegisterDevicetype.    *)
(***************************************************************************)
plusName == "Streamdeck Plus"
neoName == "Streamdeck Neo"
mk2Name == "Streamdeck MK2"
pedalName == "Streamdeck Pedal"

plusImageReportPayloadLength == 1024
neoImageReportPayloadLength == 1024
mk2ImageReportPayloadLength == 1024

\* resetPacket32() and brightnessPacket32(), the control reports every
\* descriptor is registered with; the file that defines them is not at hand.
resetPacket32 == << 3, 2 >>
brightnessPacket32 == << 3, 8 >>

\* A nil buttonMap: no entry.
NilMap == [k \in {} |-> 0]

\* imageSize is <<X, Y>>; <<0, 0>> is image.Point{}.  areaHeader says whether
\* imageAreaHeaderFunc is set (non-nil).
deviceTypes ==
  << [name |-> mk2Name, imageSize |-> <<72, 72>>, usbProductID |-> 128,
      numberOfButtons |-> 15, buttonReadOffset |-> 4, imageFormat |-> "JPEG",
      imagePayloadPerPage |-> mk2ImageReportPayloadLength,
      buttonMap |-> NilMap, areaHeader |-> FALSE,
      resetPacket |-> resetPacket32, brightnessPacket |-> brightnessPacket32],
     [name |-> pedalName, imageSize |-> <<0, 0>>, usbProductID |-> 134,
      numberOfButtons |-> 3, buttonReadOffset |-> 4, imageFormat |-> "",
      imagePayloadPerPage |-> 0,
      buttonMap |-> NilMap, areaHeader |-> FALSE,
      resetPacket |-> resetPacket32, brightnessPacket |-> brightnessPacket32],
     [name |-> neoName, imageSize |-> <<96, 96>>, usbProductID |-> 154,
      numberOfButtons |-> 10, buttonReadOffset |-> 4, imageFormat |-> "JPEG",
      imagePayloadPerPage |-> neoImageReportPayloadLength,
      buttonMap |-> NilMap, areaHeader |-> TRUE,
      resetPacket |-> resetPacket32, brightnessPacket |-> brightnessPacket32],
     [name |-> plusName, imageSize |-> <<120, 120>>, usbProductID |-> 132,
      numberOfButtons |-> 8, buttonReadOffset |-> 4, imageFormat |-> "JPEG",
      imagePayloadPerPage |-> plusImageReportPayloadLength,
      buttonMap |-> NilMap, areaHeader |-> TRUE,
      resetPacket |-> resetPacket32, brightnessPacket |-> brightnessPacket32] >>

DeviceNames == {deviceTypes[k].name : k \in 1..Len(deviceTypes)}

\* The descriptor OpenTCP looks for (product id 0xaa) and eventListener names;
\* its registration is in no file at hand.
studioName == "Streamdeck Studio"

studioType ==
  [name |-> studioName, imageSize |-> <<144, 112>>, usbProductID |-> 170,
   numberOfButtons |-> 32, buttonReadOffset |-> 4, imageFormat |-> "JPEG",
   imagePayloadPerPage |-> 1024,
   buttonMap |-> NilMap, areaHeader |-> FALSE,
      resetPacket |-> resetPacket32, brightnessPacket |-> brightnessPacket32]

\* The descriptor rawWriteToButton names for its half-chunk rule; its
\* registration is in no file at hand.  It is given the packet capacity and the
\* header of the MK2, and the BMP format.
originalName == "Streamdeck (original)"

originalType ==
  [name |-> originalName, imageSize |-> <<72, 72>>, usbProductID |-> 96,
   numberOfButtons |-> 15, buttonReadOffset |-> 1, imageFormat |-> "BMP",
   imagePayloadPerPage |-> mk2ImageReportPayloadLength,
   buttonMap |-> NilMap, areaHeader |-> FALSE,
   resetPacket |-> resetPacket32, brightnessPacket |-> brightnessPacket32]

knownTypes == deviceTypes \o << studioType, originalType >>

DeviceType(n) == knownTypes[CHOOSE k \in 1..Len(knownTypes) : knownTypes[k].name = n]

(***************************************************************************)
(* Byte helpers.                                                           *)
(***************************************************************************)
\* byte(v): the low 8 bits.
Lo(v) == v % 256
\* byte(v >> 8)
Hi(v) == (v \div 256) % 256

Zeros(n) == [k \in 1..n |-> 0]

\* binary.LittleEndian.Uint16 of two bytes
LittleEndian16(lo, hi) == lo + 256 * hi

(***************************************************************************)
(* Header builders.                                                        *)
(***************************************************************************)
\* The button header shared by GetImageHeaderPlus / Neo / Mk2, for a
\* descriptor whose <model>ImageReportPayloadLength is payloadLength.
ButtonHeader(payloadLength, bytesRemaining, btnIndex, pageNumber) ==
  LET thisLength == IF payloadLength < bytesRemaining
                      THEN payloadLength ELSE bytesRemaining
  IN  << 2, 7, Lo(btnIndex),
         IF thisLength = bytesRemaining THEN 1 ELSE 0,
         Lo(thisLength), Hi(thisLength),
         Lo(pageNumber), Hi(pageNumber) >>

GetImageHeaderPlus(bytesRemaining, btnIndex, pageNumber) ==
  ButtonHeader(plusImageReportPayloadLength, bytesRemaining, btnIndex, pageNumber)

GetImageHeaderNeo(bytesRemaining, btnIndex, pageNumber) ==
  ButtonHeader(neoImageReportPayloadLength, bytesRemaining, btnIndex, pageNumber)

GetImageHeaderMk2(bytesRemaining, btnIndex, pageNumber) ==
  ButtonHeader(mk2ImageReportPayloadLength, bytesRemaining, btnIndex, pageNumber)

GetImageHeaderPedal(bytesRemaining, btnIndex, pageNumber) == << >>

GetImageAreaHeaderPlus(bytesRemaining, x, y, width, height, pageIndex) ==
  LET thisLength == IF plusImageReportPayloadLength > bytesRemaining
                      THEN bytesRemaining ELSE plusImageReportPayloadLength
  IN  << 2, 12, Lo(x), Hi(x), 0, 0, Lo(width), Hi(width), Lo(height), Hi(height),
         IF thisLength = bytesRemaining THEN 1 ELSE 0,
         Lo(pageIndex), Hi(pageIndex),
         Lo(thisLength), Hi(thisLength), 0 >>

GetImageAreaHeaderNeo(bytesRemaining, x, y, width, height, pageIndex) ==
  LET thisLength == IF neoImageReportPayloadLength > bytesRemaining
                      THEN bytesRemaining ELSE neoImageReportPayloadLength
  IN  << 2, 11, 0,
         IF thisLength = bytesRemaining THEN 1 ELSE 0,
         Lo(thisLength), Hi(thisLength),
         Lo(pageIndex), Hi(pageIndex) >>

\* d.deviceType.imageHeaderFunc
imageHeaderFunc(d, bytesRemaining, btnIndex, pageNumber) ==
  CASE d.name = plusName -> GetImageHeaderPlus(bytesRemaining, btnIndex, pageNumber)
    [] d.name = neoName -> GetImageHeaderNeo(bytesRemaining, btnIndex, pageNumber)
    [] d.name = mk2Name -> GetImageHeaderMk2(bytesRemaining, btnIndex, pageNumber)
    [] d.name = pedalName -> GetImageHeaderPedal(bytesRemaining, btnIndex, pageNumber)
    [] d.name = originalName -> GetImageHeaderMk2(bytesRemaining, btnIndex, pageNumber)

\* d.deviceType.imageAreaHeaderFunc, called only where d.areaHeader holds
imageAreaHeaderFunc(d, bytesRemaining, x, y, width, height, pageNumber) ==
  CASE d.name = plusName ->
         GetImageAreaHeaderPlus(bytesRemaining, x, y, width, height, pageNumber)
    [] d.name = neoName ->
         GetImageAreaHeaderNeo(bytesRemaining, x, y, width, height, pageNumber)


(***************************************************************************)
(* State.                                                                  *)
(***************************************************************************)
VARIABLES
  dev,             \* name of the descriptor of the open device
  \* ---- a caller's write operation (one caller task)
  wpc,             \* "idle" | "button" (in rawWriteToButton's loop) |
                   \* "area" (in rawWriteToArea's loop) | "returned"
  api,             \* the public operation called
  argIndex,        \* the button index the caller passed
  btnIndex,        \* rawWriteToButton's btnIndex
  areaX,           \* rawWriteToArea's x
  imgLen,          \* len(rawImage)
  pageNumber, bytesRemaining, bytesSent,
  wire,            \* the frames handed to d.fd.Write since the operation began,
                   \* in order, whoever wrote them
  chunks,          \* per packet of wire: the loop's locals when it was written,
                   \* and whether the transport refused it (writeFailed)
  result,          \* what the operation returned: "ok" (nil), an error, "panic"
  \* ---- the decoder task (eventListener)
  dpc,             \* "running" | "inHandler" | "stopped" | "panicked"
  now,             \* the clock, ms since eventListener started
  buttonMask, buttonTime, encoderButtonMask, encoderButtonTime,
  lastIncomingDataTime,
  data,            \* the report read last (the buffer's bytes beyond it are zero)
  events,          \* the events sent while that report was processed, in order
  lastStep,        \* what the latest step of the session was: "none", "report",
                   \* "tick", "error", "close", "poll", "wait", "subscribe",
                   \* "block", "return"
  hist,            \* per wire button, what the reports and events so far amount to
  \* ---- the session: the transport and who ended it
  fd,              \* "open" | "closed": the transport d.fd
  closer,          \* who called d.fd.Close() first: "none" | "caller" | "watchdog"
  isIP,            \* Device.isIP: a network session
  watchdog,        \* the watchdog goroutine: "none" | "polling" | "returned"
  readFailed,      \* whether d.fd.Read has returned an error
  disconnects,     \* the events of index -1 sent so far (2 standing for two or more)
  \* ---- the listeners
  listeners,       \* per channel, the handlers registered, in registration order
  delivered,       \* the handler calls made for the report read last, in order
  \* ---- a second caller task writing to the same device
  task2,
  \* ---- OpenTCP
  opc,             \* where OpenTCP is
  serialNumber,    \* OpenTCP's serialNumber
  \* ---- the registry and rawOpen
  registry,        \* deviceTypes: the descriptors registered, in order
  ro,              \* rawOpen: where it is, its arguments and locals
  features,        \* the reports handed to d.fd.SendFeatureReport, in order
  started,         \* the eventListener goroutines started so far
  brightnessBuf,   \* d.deviceType.brightnessPacket: its backing array (arr) and
                   \* its length (len); the array may be longer than the slice
  buttonMap        \* d.deviceType.buttonMap of the open Device

writeVars == << wpc, api, argIndex, btnIndex, areaX, imgLen, pageNumber,
                bytesRemaining, bytesSent, wire, chunks, result >>
decodeVars == << dpc, now, buttonMask, buttonTime, encoderButtonMask,
                 encoderButtonTime, lastIncomingDataTime, data, events,
                 lastStep, hist >>
sessionVars == << fd, closer, isIP, watchdog, readFailed, disconnects >>
listenVars == << listeners, delivered >>
rawVars == << registry, ro, features, started, brightnessBuf, buttonMap >>
openVars == << opc, serialNumber, rawVars >>
vars == << dev, writeVars, decodeVars, sessionVars, listenVars, task2, openVars >>

d == DeviceType(dev)

\* d.deviceType of the open Device: the descriptor with its remap table.
deviceType == [d EXCEPT !.buttonMap = buttonMap]

(***************************************************************************)
(* The image collaborator: the encoded payload is opaque; only its length  *)
(* and the identity of its bytes matter.  Its bytes are nonzero here so    *)
(* that they differ from a packet's zero padding.                          *)
(***************************************************************************)
RawImage(n) == [k \in 1..n |-> 1 + ((k - 1) % 255)]

rawImage == RawImage(imgLen)

\* getImageForButton: the formats it encodes; any other is an error.
KnownImageFormat(f) == f \in {"JPEG", "BMP"}

HasImageCapability(dt) == dt.imageSize # <<0, 0>>

\* Go's uint(btnIndex) and int(...) back are inverse bijections on 64 bits, and
\* the loop compares uint(match) with uint(btnIndex): equality of the ints.
\* Go ranges over the map in an unspecified order: any matching key.
mapButtonIn(dt, idx) ==
  LET outs == {out \in DOMAIN dt.buttonMap : dt.buttonMap[out] = idx}
  IN  IF outs # {} THEN outs ELSE {idx}

\* mapButtonOut: the table's entry for a wire index that has one, the index
\* itself otherwise; before it, a faulty variant that never looks it up.
mapButtonOutUnmapped(dt, idx) == idx
mapButtonOut(dt, idx) ==
  IF idx \in DOMAIN dt.buttonMap THEN dt.buttonMap[idx] ELSE idx

Min(x, y) == IF x < y THEN x ELSE y
Max(x, y) == IF x > y THEN x ELSE y

\* rawWriteToButton's precondition: TRUE when the index is refused.
InvalidKeyIndex(dt, idx) == Min(Max(idx, 0), dt.numberOfButtons) # idx

(***************************************************************************)
(* Inputs of the write operations.                                         *)
(***************************************************************************)
ImageDevices == {n \in DeviceNames : HasImageCapability(DeviceType(n))}

\* What one packet can carry, over the descriptors: the packet capacity, and
\* the capacity less the button header and less the area header.
ChunkSizes ==
  UNION { {DeviceType(n).imagePayloadPerPage,
           DeviceType(n).imagePayloadPerPage
             - Len(imageHeaderFunc(DeviceType(n), 0, 0, 0))}
          \cup (IF DeviceType(n).areaHeader
                  THEN {DeviceType(n).imagePayloadPerPage
                          - Len(imageAreaHeaderFunc(DeviceType(n), 0, 0, 0, 0, 0, 0))}
                  ELSE {})
          : n \in ImageDevices }

\* Payload lengths: the short ones, and those around 1..MaxPages chunks.
PayloadLens ==
  (0..MaxSlack) \cup
  {c * p + s : c \in ChunkSizes, p \in 1..MaxPages, s \in (0 - MaxSlack)..MaxSlack}

\* Button indices a caller passes: the ends of the range and just outside it.
Indices(dt) ==
  {-1, 0, dt.numberOfButtons - 1, dt.numberOfButtons, dt.numberOfButtons + 1}

\* x of an area write (the captured offsets); width 200, height 100, y 0.
AreaXs == {0, 200, 600}

(***************************************************************************)
(* The public write operations, up to the framing loop.                    *)
(***************************************************************************)
halfImage == imgLen \div 2

\* The caller is not inside an operation.  An operation reads no state an
\* earlier one left behind, so a behaviour follows one operation to its return.
CanCall == wpc = "idle"

\* The locals of a call, before any packet.
Begin(a, idx, n, x) ==
  /\ api' = a
  /\ argIndex' = idx
  /\ imgLen' = n
  /\ areaX' = x
  /\ pageNumber' = 0
  /\ bytesSent' = 0
  /\ wire' = << >>
  /\ chunks' = << >>
  /\ UNCHANGED << dev, decodeVars, sessionVars,
                  listenVars, task2, openVars >>

\* The operation returns r to its caller without entering a loop.
ReturnNow(r, idx) ==
  /\ wpc' = "returned"
  /\ result' = r
  /\ btnIndex' = idx
  /\ bytesRemaining' = 0

\* WriteImageToButton drops what WriteRawImageToButton returns and returns nil.
Returned(a, r) == IF a = "WriteImageToButton" THEN "ok" ELSE r

\* rawWriteToButton up to its loop: the index check.
rawWriteToButtonEntry(a, idx, n) ==
  IF InvalidKeyIndex(d, idx)
    THEN ReturnNow(Returned(a, "InvalidIndex"), idx)
    ELSE /\ wpc' = "button"
         /\ result' = "running"
         /\ btnIndex' = idx
         /\ bytesRemaining' = n

\* The body WriteColorToButton and WriteRawImageToButton share: remap, the
\* capability check, the encoding, rawWriteToButton.
ButtonWriteBody(a, idx, n) ==
  \E m \in mapButtonIn(deviceType, idx) :
    IF ~HasImageCapability(d)
      THEN ReturnNow(Returned(a, "UnsupportedOperation"), m)
      ELSE IF ~KnownImageFormat(d.imageFormat)
             THEN ReturnNow(Returned(a, "UnknownImageFormat"), m)
             ELSE rawWriteToButtonEntry(a, m, n)

WriteColorToButton(idx, n) ==
  /\ CanCall
  /\ Begin("WriteColorToButton", idx, n, 0)
  /\ ButtonWriteBody("WriteColorToButton", idx, n)

WriteRawImageToButton(idx, n) ==
  /\ CanCall
  /\ Begin("WriteRawImageToButton", idx, n, 0)
  /\ ButtonWriteBody("WriteRawImageToButton", idx, n)

\* fileOk: whether getImageFile could read and decode the file.
WriteImageToButton(idx, n, fileOk) ==
  /\ CanCall
  /\ Begin("WriteImageToButton", idx, n, 0)
  /\ IF ~HasImageCapability(d)
       THEN ReturnNow("UnsupportedOperation", idx)
       ELSE IF ~fileOk
              THEN ReturnNow("FileError", idx)
              ELSE ButtonWriteBody("WriteImageToButton", idx, n)

WriteRawImageToAreaUnscaled(x, n) ==
  /\ CanCall
  /\ Begin("WriteRawImageToAreaUnscaled", -1, n, x)
  /\ IF ~KnownImageFormat(d.imageFormat)
       THEN ReturnNow("UnknownImageFormat", -1)
       ELSE /\ wpc' = "area"
            /\ result' = "running"
            /\ btnIndex' = -1
            /\ bytesRemaining' = n

(***************************************************************************)
(* The framing loops: one action per iteration (one transport write).      *)
(***************************************************************************)
\* rawWriteToButton's thisLength with the half-chunk quirk applied to every
\* descriptor: a faulty variant of ButtonThisLength.
ButtonThisLengthHalved(name, imageReportPayloadLength, remaining, half) ==
  IF imageReportPayloadLength < remaining THEN half ELSE remaining

\* rawWriteToButton's thisLength.
ButtonThisLength(name, imageReportPayloadLength, remaining, half) ==
  IF imageReportPayloadLength < remaining
    THEN IF name = originalName THEN half ELSE imageReportPayloadLength
    ELSE remaining

\* rawWriteToArea's thisLength.
AreaThisLength(imageReportPayloadLength, remaining) ==
  IF imageReportPayloadLength > remaining THEN remaining ELSE imageReportPayloadLength

\* d.fd.Write(thingToSend): the call's results are not assigned, so a write
\* that failed does not end the loop; before it, a faulty variant that returns
\* on the error.
AbortsOnWriteErrorAlways(failed) == failed
AbortsOnWriteError(failed) == FALSE

\* The tail both loops share: build header ++ rawImage[bytesSent :
\* bytesSent+thisLength] ++ padding, write it, advance.  Go panics where the
\* slice is out of range or make() gets a negative length; the transport's
\* answer to the write is dropped.
SendFrame(header, imageReportLength, thisLength) ==
  LET payload == header \o SubSeq(rawImage, bytesSent + 1, bytesSent + thisLength)
  IN  IF /\ thisLength >= 0
         /\ bytesSent + thisLength <= imgLen
         /\ imageReportLength - Len(payload) >= 0
        THEN /\ wire' = Append(wire, payload \o Zeros(imageReportLength - Len(payload)))
             /\ chunks' = Append(chunks, [thisLength |-> thisLength,
                                          headerLength |-> Len(header),
                                          bytesRemaining |-> bytesRemaining,
                                          bytesSent |-> bytesSent,
                                          writeFailed |-> fd # "open"])
             /\ IF AbortsOnWriteError(fd # "open")
                  THEN /\ wpc' = "returned"
                       /\ result' = "WriteError"
                       /\ UNCHANGED << bytesRemaining, pageNumber, bytesSent >>
                  ELSE /\ bytesRemaining' = bytesRemaining - thisLength
                       /\ pageNumber' = pageNumber + 1
                       /\ bytesSent' = bytesSent + thisLength
                       /\ UNCHANGED << wpc, result >>
        ELSE /\ wpc' = "returned"
             /\ result' = "panic"
             /\ UNCHANGED << wire, chunks, bytesRemaining, pageNumber, bytesSent >>

\* d.fd.Write is called with no lock held: a caller's write goes ahead whether
\* or not another task is inside a framed write (otherBusy); before it, a
\* faulty variant in which a write waits for the other task's operation.
MayWriteExclusive(otherBusy) == ~otherBusy
MayWrite(otherBusy) == TRUE

\* One iteration of rawWriteToButton's loop.
rawWriteToButton ==
  /\ wpc = "button"
  /\ bytesRemaining > 0
  /\ MayWrite(task2.pc = "loop")
  /\ LET header == imageHeaderFunc(d, bytesRemaining, btnIndex, pageNumber)
         imageReportLength == d.imagePayloadPerPage
         imageReportPayloadLength == imageReportLength - Len(header)
     IN  SendFrame(header, imageReportLength,
                   ButtonThisLength(d.name, imageReportPayloadLength,
                                    bytesRemaining, halfImage))
  /\ UNCHANGED << api, argIndex, btnIndex, areaX, imgLen, dev, decodeVars, sessionVars,
                  listenVars, task2, openVars >>

\* One iteration of rawWriteToArea's loop; a nil imageAreaHeaderFunc panics.
rawWriteToArea ==
  /\ wpc = "area"
  /\ bytesRemaining > 0
  /\ IF d.areaHeader
       THEN LET header == imageAreaHeaderFunc(d, bytesRemaining, areaX, 0, 200, 100,
                                              pageNumber)
                imageReportLength == d.imagePayloadPerPage
                imageReportPayloadLength == imageReportLength - Len(header)
            IN  SendFrame(header, imageReportLength,
                          AreaThisLength(imageReportPayloadLength, bytesRemaining))
       ELSE /\ wpc' = "returned"
            /\ result' = "panic"
            /\ UNCHANGED << wire, chunks, bytesRemaining, pageNumber, bytesSent >>
  /\ UNCHANGED << api, argIndex, btnIndex, areaX, imgLen, dev, decodeVars, sessionVars,
                  listenVars, task2, openVars >>

\* The loop's exit: return nil.
ReturnNil ==
  /\ wpc \in {"button", "area"}
  /\ bytesRemaining <= 0
  /\ wpc' = "returned"
  /\ result' = Returned(api, "ok")
  /\ UNCHANGED << api, argIndex, btnIndex, areaX, imgLen, pageNumber,
                  bytesRemaining, bytesSent, wire, chunks, dev, decodeVars, sessionVars,
                  listenVars, task2, openVars >>

(***************************************************************************)
(* A second caller task writing to the same device: WriteRawImageToButton  *)
(* with its own locals, held in task2, and the same transport.             *)
(***************************************************************************)
\* The second task calls WriteRawImageToButton(idx, n) once the first is inside
\* its operation.
Task2Call(idx, n) ==
  /\ task2.pc = "idle"
  /\ wpc # "idle"
  /\ \E m \in mapButtonIn(deviceType, idx) :
       task2' = IF ~HasImageCapability(d)
                  THEN [pc |-> "returned", result |-> "UnsupportedOperation"]
                  ELSE IF ~KnownImageFormat(d.imageFormat)
                    THEN [pc |-> "returned", result |-> "UnknownImageFormat"]
                    ELSE IF InvalidKeyIndex(d, m)
                      THEN [pc |-> "returned", result |-> "InvalidIndex"]
                      ELSE [pc |-> "loop", btnIndex |-> m, imgLen |-> n,
                            pageNumber |-> 0, bytesRemaining |-> n, bytesSent |-> 0]
  /\ UNCHANGED << dev, writeVars, decodeVars, sessionVars, listenVars, openVars >>

\* One iteration of rawWriteToButton's loop in the second task.
Task2Write ==
  /\ task2.pc = "loop"
  /\ task2.bytesRemaining > 0
  /\ MayWrite(wpc \in {"button", "area"})
  /\ LET header == imageHeaderFunc(d, task2.bytesRemaining, task2.btnIndex,
                                   task2.pageNumber)
         imageReportLength == d.imagePayloadPerPage
         thisLength == ButtonThisLength(d.name, imageReportLength - Len(header),
                                        task2.bytesRemaining, task2.imgLen \div 2)
         payload == header \o SubSeq(RawImage(task2.imgLen), task2.bytesSent + 1,
                                     task2.bytesSent + thisLength)
     IN  IF /\ thisLength >= 0
            /\ task2.bytesSent + thisLength <= task2.imgLen
            /\ imageReportLength - Len(payload) >= 0
           THEN /\ wire' = Append(wire, payload \o Zeros(imageReportLength - Len(payload)))
                /\ task2' = [task2 EXCEPT !.bytesRemaining = @ - thisLength,
                                          !.pageNumber = @ + 1,
                                          !.bytesSent = @ + thisLength]
           ELSE /\ task2' = [pc |-> "returned", result |-> "panic"]
                /\ wire' = wire
  /\ UNCHANGED << dev, wpc, api, argIndex, btnIndex, areaX, imgLen, pageNumber,
                  bytesRemaining, bytesSent, chunks, result, decodeVars,
                  sessionVars, listenVars, openVars >>

\* The second task's loop exit: return nil.
Task2Return ==
  /\ task2.pc = "loop"
  /\ task2.bytesRemaining <= 0
  /\ task2' = [pc |-> "returned", result |-> "ok"]
  /\ UNCHANGED << dev, writeVars, decodeVars, sessionVars, listenVars, openVars >>

(***************************************************************************)
(* The inbound decoder: eventListener.                                     *)
(***************************************************************************)
numberOfEncoders == 4
encoderReadOffset == 5
\* The debounce window of button and encoder presses, ms.
DebounceMs == 100
\* len(data): the report buffer.
ReportBufferLen == 1024

\* data[k] of a report r read into the zeroed buffer (Go index k).
Byte(r, k) == IF k < Len(r) THEN r[k + 1] ELSE 0

\* The descriptors eventListener demultiplexes by data[1].
\* Before it, a faulty variant that takes no descriptor for an extended one.
IsExtendedNever(dt) == FALSE
IsExtended(dt) == dt.name \in {"Streamdeck Plus", "Streamdeck Studio"}

\* time.Now().After(t.Add(100 ms)), with the clock at clk; before it, a faulty
\* variant without the window.
DebounceElapsedNever(clk, t) == TRUE
DebounceElapsed(clk, t) == clk > t + DebounceMs

\* The else-branch's test: a release is due only for a latched press; before
\* it, a faulty variant without the latch.
ReleaseDueAlways(mask) == TRUE
ReleaseDue(mask) == mask

\* if !buttonMask[i]: a press is sent only for a button that is not latched;
\* before it, a faulty variant without the latch.
PressDueAlways(mask) == TRUE
PressDue(mask) == ~mask

\* rev := int(b); if rev > 127 { rev = rev - 256 }; before it, a faulty
\* variant that leaves the byte unsigned.
SignedDeltaUnsigned(b) == b
SignedDelta(b) == IF b > 127 THEN b - 256 ELSE b

\* An event as handed to the listeners of its category.  src is the wire
\* index it was decoded from, at the clock when it was sent.
Event(cat, idx, val, arg, src, clk) ==
  [cat |-> cat, idx |-> idx, val |-> val, arg |-> arg, src |-> src, at |-> clk]

\* The listener slice an event's category is sent to: presses and releases
\* (and the disconnect) share buttonPressListeners.
Channel(cat) == IF cat \in {"press", "release"} THEN "button" ELSE cat

Channels == {"button", "encoderPush", "encoderRotate", "touchPush", "touchSwipe", "nfc"}

\* for _, f := range d.<channel>Listeners: the handlers in the order called;
\* before it, a faulty variant calling the latest registered first.
HandlersForReversed(ch) ==
  [j \in 1..Len(listeners[ch]) |-> listeners[ch][Len(listeners[ch]) + 1 - j]]
HandlersFor(ch) == listeners[ch]

\* A send<Category>Event call: every handler of the channel is called in turn
\* with the event (the k-th of this report), each taking hd ms: called at at,
\* returning at ret.
Send(st, e, hd) ==
  LET hs == HandlersFor(Channel(e.cat))
      k == Len(st.ev) + 1
  IN  [st EXCEPT !.ev = Append(@, e),
                 !.calls = @ \o [j \in 1..Len(hs) |->
                                   [h |-> hs[j], k |-> k, at |-> st.clk + hd * (j - 1),
                                    ret |-> st.clk + hd * j]],
                 !.clk = @ + hd * Len(hs)]

\* "Standard button stuff": the loop over the buttons, from button i on.
\* st holds the decoder's buttonMask (mask), buttonTime (time), the clock and
\* the events sent.
RECURSIVE StandardButtons(_, _, _, _, _)
StandardButtons(dt, r, i, st, hd) ==
  IF i >= dt.numberOfButtons THEN st
  ELSE
    LET next ==
          IF Byte(r, dt.buttonReadOffset + i) = 1
            THEN IF DebounceElapsed(st.clk, st.time[i])
                   THEN IF PressDue(st.mask[i])
                          THEN LET sent == Send(st, Event("press", mapButtonOut(dt, i),
                                                          1, << >>, i, st.clk), hd)
                               IN  [sent EXCEPT !.time[i] = sent.clk, !.mask[i] = TRUE]
                          ELSE [st EXCEPT !.mask[i] = TRUE]
                   ELSE st
            ELSE IF ReleaseDue(st.mask[i])
                   THEN [Send(st, Event("release", mapButtonOut(dt, i),
                                        0, << >>, i, st.clk), hd)
                           EXCEPT !.mask[i] = FALSE]
                   ELSE st
    IN  StandardButtons(dt, r, i + 1, next, hd)

\* Encoder press (data[4] = 0): the same rule over encoderButtonMask and
\* encoderButtonTime, held in st as mask and time.
RECURSIVE EncoderPress(_, _, _, _)
EncoderPress(r, i, st, hd) ==
  IF i >= numberOfEncoders THEN st
  ELSE
    LET next ==
          IF Byte(r, encoderReadOffset + i) = 1
            THEN IF DebounceElapsed(st.clk, st.time[i])
                   THEN IF ~st.mask[i]
                          THEN LET sent == Send(st, Event("encoderPush", i, 1, << >>,
                                                          i, st.clk), hd)
                               IN  [sent EXCEPT !.time[i] = sent.clk, !.mask[i] = TRUE]
                          ELSE [st EXCEPT !.mask[i] = TRUE]
                   ELSE st
            ELSE IF ReleaseDue(st.mask[i])
                   THEN [Send(st, Event("encoderPush", i, 0, << >>, i, st.clk), hd)
                           EXCEPT !.mask[i] = FALSE]
                   ELSE st
    IN  EncoderPress(r, i + 1, next, hd)

\* Encoder rotate (data[4] = 1).
RECURSIVE EncoderRotate(_, _, _, _)
EncoderRotate(r, i, st, hd) ==
  IF i >= numberOfEncoders THEN st
  ELSE
    LET b == Byte(r, encoderReadOffset + i)
        next == IF b > 0
                  THEN Send(st, Event("encoderRotate", i, SignedDelta(b), << >>,
                                      i, st.clk), hd)
                  ELSE st
    IN  EncoderRotate(r, i + 1, next, hd)

\* Touch (data[1] = 2).
Touch(r, st, hd) ==
  LET x1 == LittleEndian16(Byte(r, 6), Byte(r, 7))
      y1 == LittleEndian16(Byte(r, 8), Byte(r, 9))
      x2 == LittleEndian16(Byte(r, 10), Byte(r, 11))
      y2 == LittleEndian16(Byte(r, 12), Byte(r, 13))
  IN  CASE Byte(r, 4) = 1 ->
             Send(st, Event("touchPush", -1, 0, << x1, y1 >>, -1, st.clk), hd)
        [] Byte(r, 4) = 2 ->
             Send(st, Event("touchPush", -1, 1, << x1, y1 >>, -1, st.clk), hd)
        [] Byte(r, 4) = 3 ->
             Send(st, Event("touchSwipe", -1, 0, << x1, y1, x2, y2 >>, -1, st.clk), hd)
        [] OTHER -> st

\* NFC (data[1] = 4).  chars is a uint16 and so is 4+chars: it wraps.  A
\* slice data[4 : hi] with hi < 4 panics.
NFC(r, st, hd) ==
  LET chars == LittleEndian16(Byte(r, 2), Byte(r, 3))
      hi == (4 + chars) % 65536
  IN  IF ReportBufferLen > hi
        THEN IF hi < 4
               THEN [st EXCEPT !.panic = TRUE]
               ELSE Send(st, Event("nfc", -1, 0,
                                   [k \in 1..(hi - 4) |-> Byte(r, 3 + k)], -1, st.clk), hd)
        ELSE st

\* The keep-alive reply: 03 1a and zeroes, 1024 bytes; before it, a faulty
\* variant that sends the two bytes alone.
KeepAliveReplyUnpadded == << 3, 26 >>
KeepAliveReply == << 3, 26 >> \o Zeros(1022)

\* if data[0] == 1: only such a report is an event report, on every
\* descriptor; before it, a faulty variant without the guard.
IsEventReportAny(r) == TRUE
IsEventReport(r) == Byte(r, 0) = 1

\* The whole body of the read loop for a report r read without error.  b
\* (buttons) and e (encoders) hold mask, time, clk, ev and panic; the clock and
\* the events are threaded through whichever branch runs.  writeOk: whether the
\* keep-alive reply's write succeeds; its error path sends the disconnect event
\* (index -1) and breaks out of the switch only.
Decode(dt, r, hd, writeOk) ==
  LET st0 == [mask |-> buttonMask, time |-> buttonTime, clk |-> now,
              ev |-> << >>, calls |-> << >>, panic |-> FALSE]
      en0 == [mask |-> encoderButtonMask, time |-> encoderButtonTime, clk |-> now,
              ev |-> << >>, calls |-> << >>, panic |-> FALSE]
      same == [b |-> st0, e |-> en0, out |-> st0, alive |-> FALSE]
  IN  IF IsEventReport(r)
        THEN IF IsExtended(dt) /\ Byte(r, 1) > 0
               THEN CASE Byte(r, 1) = 10 ->
                           [same EXCEPT !.alive = TRUE,
                                        !.out = IF writeOk THEN st0
                                                ELSE Send(st0, Event("press", -1, 1, << "err" >>,
                                                                     -1, st0.clk), hd)]
                      [] Byte(r, 1) = 4 -> [same EXCEPT !.out = NFC(r, st0, hd)]
                      [] Byte(r, 1) = 2 -> [same EXCEPT !.out = Touch(r, st0, hd)]
                      [] Byte(r, 1) = 3 ->
                           CASE Byte(r, 4) = 1 ->
                                  [same EXCEPT !.out = EncoderRotate(r, 0, st0, hd)]
                             [] Byte(r, 4) = 0 ->
                                  LET en == EncoderPress(r, 0, en0, hd)
                                  IN  [same EXCEPT !.e = en, !.out = en]
                             [] OTHER -> same
                      [] OTHER -> same
               ELSE LET st == StandardButtons(dt, r, 0, st0, hd)
                    IN  [same EXCEPT !.b = st, !.out = st]
        ELSE same

\* Whether report r carries button states: an event report (data[0] = 1), and
\* on an extended descriptor one with data[1] = 0.
IsButtonReport(dt, r) == Byte(r, 0) = 1 /\ (~IsExtended(dt) \/ Byte(r, 1) = 0)

\* The kinds of the press and release events in es, preceded by prev.
Kinds(prev, es) == << prev >> \o [k \in 1..Len(es) |-> es[k].cat]

\* A record of what was reported and what was sent for wire button i, brought
\* up to date after report r read at clock t for which the events ev were
\* sent, each taking hd.  A transition is timed by the clock at which the
\* loop reaches the button, after the events of the buttons before it.  down: the button's last reported state; downs: its 0->1 transitions
\* so far (2 standing for two or more); downAt: the clock at the 0->1
\* transition while the button is down; heldFor: once it is up again, the
\* time between the two transitions; presses, releases: the events sent since
\* the latest 0->1 transition; lastPressAt: the clock of the last press sent;
\* pressGap: the time between the last two presses sent; downGap: how long
\* after the last press the latest 0->1 transition came; pressAtDown: whether
\* that transition's report sent a press; lastKind: the last event's kind;
\* alternates: whether the events so far went press, release, press, ...
\* Durations are recorded up to DebounceMs.
HistAfter(dt, h, i, r, t, ev, hd) ==
  LET mine == SelectSeq(ev, LAMBDA e : e.src = i /\ e.cat \in {"press", "release"})
      pressed == SelectSeq(mine, LAMBDA e : e.cat = "press")
      released == SelectSeq(mine, LAMBDA e : e.cat = "release")
      isBtn == IsButtonReport(dt, r)
      isDown == Byte(r, dt.buttonReadOffset + i) = 1
      goesDown == isBtn /\ ~h.down /\ isDown
      goesUp == isBtn /\ h.down /\ ~isDown
      kinds == Kinds(h.lastKind, mine)
      seenAt == t + hd * Len(SelectSeq(ev, LAMBDA e : e.src < i))
      stamps == << h.lastPressAt >> \o [k \in 1..Len(pressed) |-> pressed[k].at]
  IN  [down |-> IF isBtn THEN isDown ELSE h.down,
       downs |-> IF goesDown THEN Min(h.downs + 1, 2) ELSE h.downs,
       downAt |-> IF goesDown THEN seenAt ELSE IF goesUp THEN -1 ELSE h.downAt,
       heldFor |-> IF goesDown THEN -1 ELSE IF goesUp THEN Min(seenAt - h.downAt, DebounceMs)
                   ELSE h.heldFor,
       presses |-> (IF goesDown THEN 0 ELSE h.presses) + Len(pressed),
       releases |-> (IF goesDown THEN 0 ELSE h.releases) + Len(released),
       lastPressAt |-> stamps[Len(stamps)],
       pressGap |-> IF Len(stamps) >= 2 /\ stamps[Len(stamps) - 1] >= 0
                      THEN Min(stamps[Len(stamps)] - stamps[Len(stamps) - 1], DebounceMs)
                      ELSE h.pressGap,
       downGap |-> IF goesDown
                     THEN IF h.lastPressAt >= 0 THEN Min(seenAt - h.lastPressAt, DebounceMs)
                          ELSE -1
                     ELSE h.downGap,
       pressAtDown |-> IF goesDown THEN pressed # << >> ELSE h.pressAtDown,
       lastKind |-> kinds[Len(kinds)],
       alternates |-> /\ h.alternates
                      /\ \A k \in 2..Len(kinds) :
                           kinds[k] = IF kinds[k - 1] = "press" THEN "release"
                                      ELSE "press"]

\* The events of index -1 in ev, added to the n sent before.
DisconnectsAfter(n, ev) ==
  Min(n + Len(SelectSeq(ev, LAMBDA e : e.idx = -1 /\ e.cat = "press")), 2)

\* One turn of the read loop: d.fd.Read returns report r, which is decoded
\* and whose events are sent, each handler taking hd ms.  The keep-alive reply
\* is handed to d.fd.Write whether or not the write succeeds (writeOk).
ReadReport(r, hd, writeOk) ==
  /\ dpc = "running"
  /\ fd = "open"
  /\ \E res \in {Decode(deviceType, r, hd, writeOk)} :
         /\ res.out.clk <= Max(now, MaxTime)
         /\ dpc' = IF res.out.panic THEN "panicked" ELSE "running"
         /\ now' = res.out.clk
         /\ buttonMask' = res.b.mask
         /\ buttonTime' = res.b.time
         /\ encoderButtonMask' = res.e.mask
         /\ encoderButtonTime' = res.e.time
         /\ lastIncomingDataTime' = IF res.alive THEN now ELSE lastIncomingDataTime
         /\ wire' = IF res.alive THEN Append(wire, KeepAliveReply) ELSE wire
         /\ events' = res.out.ev
         /\ delivered' = res.out.calls
         /\ disconnects' = DisconnectsAfter(disconnects, res.out.ev)
         /\ hist' = [i \in DOMAIN hist |-> HistAfter(d, hist[i], i, r, now, res.out.ev, hd)]
  /\ data' = r
  /\ lastStep' = "report"
  /\ UNCHANGED << dev, wpc, api, argIndex, btnIndex, areaX, imgLen, pageNumber,
                  bytesRemaining, bytesSent, chunks, result, fd, closer, isIP,
                  watchdog, readFailed, listeners, task2, openVars >>

\* Where the loop goes after a read error: break; before it, a faulty variant
\* that reads on.
LoopAfterReadErrorContinues == "running"
LoopAfterReadError == "stopped"

\* d.fd.Read fails (the transport was closed, or an I/O error): the error is
\* sent as a press of index -1 and the loop ends.
ReadError ==
  /\ dpc = "running"
  /\ dpc' = LoopAfterReadError
  /\ \E res \in {Send([ev |-> << >>, calls |-> << >>, clk |-> now],
                      Event("press", -1, 1, << "err" >>, -1, now), 0)} :
       /\ events' = res.ev
       /\ delivered' = res.calls
       /\ disconnects' = DisconnectsAfter(disconnects, res.ev)
  /\ readFailed' = TRUE
  /\ lastStep' = "error"
  /\ UNCHANGED << dev, writeVars, now, buttonMask, buttonTime, encoderButtonMask,
                  encoderButtonTime, lastIncomingDataTime, data, hist, fd, closer,
                  isIP, watchdog, listeners, task2, openVars >>

\* Time passes while the decoder is blocked in Read.
Tick ==
  /\ dpc = "running"
  /\ now < MaxTime
  /\ now' = now + TickMs
  /\ lastStep' = "tick"
  /\ UNCHANGED << dev, writeVars, dpc, buttonMask, buttonTime, encoderButtonMask,
                  encoderButtonTime, lastIncomingDataTime, data, events, hist,
                  sessionVars, listenVars, task2, openVars >>

\* eventListener's locals before its loop: the masks clear, every timer
\* time.Now().
DecoderFresh ==
  /\ now = 0
  /\ buttonMask = [i \in 0..(d.numberOfButtons - 1) |-> FALSE]
  /\ buttonTime = [i \in 0..(d.numberOfButtons - 1) |-> 0]
  /\ encoderButtonMask = [i \in 0..(numberOfEncoders - 1) |-> FALSE]
  /\ encoderButtonTime = [i \in 0..(numberOfEncoders - 1) |-> 0]
  /\ lastIncomingDataTime = 0
  /\ data = << >>
  /\ events = << >>
  /\ lastStep = "none"
  /\ hist = [i \in 0..(Min(MaxKeys, d.numberOfButtons) - 1) |->
               [down |-> FALSE, downs |-> 0, downAt |-> -1, heldFor |-> -1,
                presses |-> 0, releases |-> 0, lastPressAt |-> -1,
                pressGap |-> -1, downGap |-> -1, pressAtDown |-> FALSE,
                lastKind |-> "none", alternates |-> TRUE]]

\* eventListener started, before its first read.
DecodeStart == dpc = "running" /\ DecoderFresh

(***************************************************************************)
(* The session's end: Close, and the watchdog of a network session.        *)
(***************************************************************************)
\* The watchdog's polling interval and timeout, ms.
PollMs == 1000
WatchdogTimeoutMs == 5000

\* What d.fd.Close() leaves of the transport; before it, a faulty variant
\* that leaves it open.
TransportAfterCloseOpen == "open"
TransportAfterClose == "closed"

\* Device.Close, called by the caller's task while the program runs.
Close ==
  /\ dpc # "panicked"
  /\ closer # "caller"
  /\ fd' = TransportAfterClose
  /\ closer' = IF closer = "none" THEN "caller" ELSE closer
  /\ lastStep' = "close"
  /\ UNCHANGED << dev, writeVars, dpc, now, buttonMask, buttonTime,
                  encoderButtonMask, encoderButtonTime, lastIncomingDataTime, data,
                  events, hist, isIP, watchdog, readFailed, disconnects,
                  listenVars, task2, openVars >>

\* time.Since(lastTime) > 5*time.Second at clock t; before it, a faulty
\* variant that never finds the session silent.
StaleNever(t, lastTime) == FALSE
Stale(t, lastTime) == t - lastTime > WatchdogTimeoutMs

\* One turn of the watchdog goroutine: sleep a second, then close the
\* transport and return if no keep-alive was stored for more than 5 s.
WatchdogPoll ==
  /\ isIP
  /\ watchdog = "polling"
  /\ dpc # "panicked"
  /\ now < MaxSessionMs
  /\ now' = now + PollMs
  /\ IF Stale(now', lastIncomingDataTime)
       THEN /\ fd' = TransportAfterClose
            /\ closer' = IF closer = "none" THEN "watchdog" ELSE closer
            /\ watchdog' = "returned"
       ELSE UNCHANGED << fd, closer, watchdog >>
  /\ lastStep' = "poll"
  /\ UNCHANGED << dev, writeVars, dpc, buttonMask, buttonTime, encoderButtonMask,
                  encoderButtonTime, lastIncomingDataTime, data, events, hist,
                  isIP, readFailed, disconnects, listenVars, task2, openVars >>

\* A second passes with no watchdog polling.
Wait ==
  /\ ~isIP \/ watchdog # "polling"
  /\ now < MaxSessionMs
  /\ now' = now + PollMs
  /\ lastStep' = "wait"
  /\ UNCHANGED << dev, writeVars, dpc, buttonMask, buttonTime, encoderButtonMask,
                  encoderButtonTime, lastIncomingDataTime, data, events, hist,
                  sessionVars, listenVars, task2, openVars >>

\* A network session just opened by OpenTCP: the watchdog runs.
SessionNetwork ==
  /\ fd = "open"
  /\ closer = "none"
  /\ isIP = TRUE
  /\ watchdog = "polling"
  /\ readFailed = FALSE
  /\ disconnects = 0

\* A local session just opened: no watchdog.
SessionLocal ==
  /\ fd = "open"
  /\ closer = "none"
  /\ isIP = FALSE
  /\ watchdog = "none"
  /\ readFailed = FALSE
  /\ disconnects = 0

\* The handlers a caller may register, and the channels it registers them on.
Handlers == {"h1", "h2"}
ListenChannels == {"button", "encoderRotate"}

\* ButtonPress(f), EncoderRotate(f): f is appended to the channel's slice, each
\* f registered once.  The append takes no lock; it is taken here between two
\* reports.
Subscribe(ch, h) ==
  /\ \A j \in 1..Len(listeners[ch]) : listeners[ch][j] # h
  /\ listeners' = [listeners EXCEPT ![ch] = Append(@, h)]
  /\ lastStep' = "subscribe"
  /\ UNCHANGED << dev, writeVars, dpc, now, buttonMask, buttonTime, encoderButtonMask,
                  encoderButtonTime, lastIncomingDataTime, data, events, hist,
                  sessionVars, delivered, task2, openVars >>

\* A device just opened: no handler registered yet.
NoListeners ==
  /\ listeners = [ch \in Channels |-> << >>]
  /\ delivered = << >>

\* One handler registered on every channel.
OneListenerEach ==
  /\ listeners = [ch \in Channels |-> << "h1" >>]
  /\ delivered = << >>

\* The second caller task is not writing.
Task2Idle == task2 = [pc |-> "idle"]

\* rawOpen has not been called.
RawOpenIdle == [pc |-> "idle"]

\* A byte slice whose backing array is exactly as long as the slice, and one
\* with spare room for more bytes behind it (make with a capacity).
ExactBuf(bytes) == [arr |-> bytes, len |-> Len(bytes)]
RoomyBuf(bytes, spare) == [arr |-> bytes \o Zeros(spare), len |-> Len(bytes)]

\* The bytes of a slice.
SliceOf(buf) == SubSeq(buf.arr, 1, buf.len)

\* pct as SetBrightness sends it: cut to 0..100; before it, a faulty variant
\* that sends the low byte of any pct.
ClampPctNone(pct) == pct
ClampPct(pct) == IF pct < 0 THEN 0 ELSE IF pct > 100 THEN 100 ELSE pct

\* SetBrightness(pct): payload := append(preamble, byte(pct)), handed to
\* SendFeatureReport.  append writes behind the slice where the backing array
\* has room, and into a fresh array otherwise; the slice the descriptor holds
\* keeps its length.
SetBrightness(pct) ==
  /\ opc = "opened"
  /\ fd = "open"
  /\ LET value == ClampPct(pct) % 256
         preamble == SliceOf(brightnessBuf)
     IN  /\ features' = Append(features, preamble \o << value >>)
         /\ brightnessBuf' =
              IF Len(brightnessBuf.arr) > brightnessBuf.len
                THEN [brightnessBuf EXCEPT !.arr[brightnessBuf.len + 1] = value]
                ELSE brightnessBuf
  /\ api' = "SetBrightness"
  /\ argIndex' = pct
  /\ lastStep' = "brightness"
  /\ UNCHANGED << dev, wpc, btnIndex, areaX, imgLen, pageNumber, bytesRemaining,
                  bytesSent, wire, chunks, result, dpc, now, buttonMask, buttonTime,
                  encoderButtonMask, encoderButtonTime, lastIncomingDataTime, data,
                  events, hist, sessionVars, listenVars, task2, opc, serialNumber,
                  registry, ro, started, buttonMap >>

\* The device is open: no open operation is running, its one listener has
\* been started, and no control report has been sent since.
OpenDone ==
  /\ opc = "opened"
  /\ serialNumber = << >>
  /\ registry = knownTypes
  /\ ro = RawOpenIdle
  /\ features = << >>
  /\ started = 1
  /\ brightnessBuf = ExactBuf(brightnessPacket32)
  /\ buttonMap = NilMap

(***************************************************************************)
(* The registry and rawOpen: enumerate the HID devices, take the first     *)
(* device and registered type with the same product id (and the serial     *)
(* asked for), open it, reset it if asked, start the listener.             *)
(***************************************************************************)
\* RegisterDevicetype: the descriptor is appended to deviceTypes, unchecked.
RegisterDevicetype(dt) ==
  /\ Len(registry) < MaxRegistered
  /\ registry' = Append(registry, dt)
  /\ lastStep' = "register"
  /\ UNCHANGED << dev, writeVars, dpc, now, buttonMask, buttonTime, encoderButtonMask,
                  encoderButtonTime, lastIncomingDataTime, data, events, hist,
                  sessionVars, listenVars, task2, opc, serialNumber, ro, features,
                  started, brightnessBuf, buttonMap >>

\* for _, devType := range deviceTypes { if device.ProductID ==
\* devType.usbProductID ...: the index of the first type of reg from j on with
\* product id pid, 0 without one; before it, a faulty variant that lets a
\* later registration win.
RECURSIVE FirstTypeLatest(_, _, _)
FirstTypeLatest(reg, pid, j) ==
  IF j > Len(reg) THEN 0
  ELSE LET later == FirstTypeLatest(reg, pid, j + 1)
       IN  IF later # 0 THEN later
           ELSE IF reg[j].usbProductID = pid THEN j ELSE 0

RECURSIVE FirstType(_, _, _)
FirstType(reg, pid, j) ==
  IF j > Len(reg) THEN 0
  ELSE IF reg[j].usbProductID = pid THEN j ELSE FirstType(reg, pid, j + 1)

\* The outer loop over the enumerated devices, from device i on: the first
\* device with a registered type and the serial asked for ("" asks for any),
\* as << device index, type index >>; << 0, 0 >> without one.
RECURSIVE Scan(_, _, _, _)
Scan(reg, devices, serial, i) ==
  IF i > Len(devices) THEN << 0, 0 >>
  ELSE LET j == IF serial = "" \/ serial = devices[i].Serial
                  THEN FirstType(reg, devices[i].ProductID, 1) ELSE 0
       IN  IF j # 0 THEN << i, j >> ELSE Scan(reg, devices, serial, i + 1)

\* rawOpen(reset, serial) up to device.Open(): devices is what hid.Enumerate
\* returns.  One open operation is followed.
rawOpen(a, reset, serial, devices) ==
  /\ ro.pc = "idle"
  /\ opc = "closed"
  /\ LET m == Scan(registry, devices, serial, 1)
         call == [pc |-> "returned", api |-> a, reset |-> reset, serial |-> serial,
                  devices |-> devices, di |-> 0, deviceType |-> << >>,
                  err |-> "none", handle |-> FALSE]
     IN  ro' = IF Len(devices) = 0
                 THEN [call EXCEPT !.err = "NoDevices"]
                 ELSE IF m = << 0, 0 >>
                   THEN [call EXCEPT !.err = "NoDefinition"]
                   ELSE [call EXCEPT !.pc = "open", !.di = m[1],
                                     !.deviceType = registry[m[2]]]
  /\ lastStep' = "rawOpen"
  /\ UNCHANGED << dev, writeVars, dpc, now, buttonMask, buttonTime, encoderButtonMask,
                  encoderButtonTime, lastIncomingDataTime, data, events, hist,
                  sessionVars, listenVars, task2, opc, serialNumber, registry,
                  features, started, brightnessBuf, buttonMap >>

Open(devices) == rawOpen("Open", TRUE, "", devices)
OpenBySerial(serial, devices) == rawOpen("OpenBySerial", TRUE, serial, devices)
OpenWithoutReset(devices) == rawOpen("OpenWithoutReset", FALSE, "", devices)

\* Where rawOpen goes after the transport is open: ResetComms if asked;
\* before it, a faulty variant that always resets.
AfterDeviceOpenAlwaysReset(reset) == "reset"
AfterDeviceOpen(reset) == IF reset THEN "reset" ELSE "start"

\* Where rawOpen goes when device.Open() fails: return nil, err; before it, a
\* faulty variant that goes on to start the listener.
AfterOpenErrorGoesOn == "start"
AfterOpenError == "returned"

\* device.Open(): on an error rawOpen returns it.
DeviceOpen(ok) ==
  /\ ro.pc = "open"
  /\ ro' = IF ok THEN [ro EXCEPT !.pc = AfterDeviceOpen(ro.reset)]
                 ELSE [ro EXCEPT !.pc = AfterOpenError, !.err = "OpenError"]
  /\ fd' = IF ok THEN "open" ELSE fd
  /\ lastStep' = "deviceOpen"
  /\ UNCHANGED << dev, writeVars, dpc, now, buttonMask, buttonTime, encoderButtonMask,
                  encoderButtonTime, lastIncomingDataTime, data, events, hist,
                  closer, isIP, watchdog, readFailed, disconnects, listenVars,
                  task2, opc, serialNumber, registry, features, started,
                  brightnessBuf, buttonMap >>

\* retval.ResetComms(): the descriptor's reset packet as a feature report.
ResetComms ==
  /\ ro.pc = "reset"
  /\ features' = Append(features, ro.deviceType.resetPacket)
  /\ ro' = [ro EXCEPT !.pc = "start"]
  /\ lastStep' = "reset"
  /\ UNCHANGED << dev, writeVars, dpc, now, buttonMask, buttonTime, encoderButtonMask,
                  encoderButtonTime, lastIncomingDataTime, data, events, hist,
                  sessionVars, listenVars, task2, opc, serialNumber, registry,
                  started, brightnessBuf, buttonMap >>

\* go retval.eventListener(); return retval, nil
StartListener ==
  /\ ro.pc = "start"
  /\ started' = started + 1
  /\ dpc' = "running"
  /\ ro' = [ro EXCEPT !.pc = "returned", !.handle = TRUE]
  /\ lastStep' = "start"
  /\ UNCHANGED << dev, writeVars, now, buttonMask, buttonTime, encoderButtonMask,
                  encoderButtonTime, lastIncomingDataTime, data, events, hist,
                  sessionVars, listenVars, task2, opc, serialNumber, registry,
                  features, brightnessBuf, buttonMap >>

(***************************************************************************)
(* OpenTCP: dial, ask for the serial, read frames until one carries it,    *)
(* then adopt the descriptor with product id 0xaa and start the listener.  *)
(***************************************************************************)
\* The product id OpenTCP looks for.
StudioProductID == 170

\* binary.BigEndian.Uint16 of two bytes
BigEndian16(hi, lo) == 256 * hi + lo

\* "Asking for serial": 03 84 and zeroes, 1024 bytes.
SerialRequest == << 3, 132 >> \o Zeros(ReportBufferLen - 2)

\* OpenTCP has not been called: no connection, no listener.
OpenNotStarted ==
  /\ opc = "closed"
  /\ serialNumber = << >>
  /\ ro = RawOpenIdle
  /\ features = << >>
  /\ started = 0
  /\ brightnessBuf = ExactBuf(brightnessPacket32)
  /\ buttonMap = NilMap
  /\ dpc = "unstarted"
  /\ fd = "none"
  /\ closer = "none"
  /\ isIP = FALSE
  /\ watchdog = "none"
  /\ readFailed = FALSE
  /\ disconnects = 0

\* net.Dial: on an error OpenTCP returns it.
Dial(ok) ==
  /\ opc = "closed"
  /\ ro.pc = "idle"
  /\ opc' = IF ok THEN "dialed" ELSE "failed"
  /\ fd' = IF ok THEN "open" ELSE fd
  /\ lastStep' = "dial"
  /\ UNCHANGED << dev, writeVars, dpc, now, buttonMask, buttonTime, encoderButtonMask,
                  encoderButtonTime, lastIncomingDataTime, data, events, hist,
                  closer, isIP, watchdog, readFailed, disconnects, listenVars,
                  task2, serialNumber, rawVars >>

\* conn.Write(response): the request frame; on an error OpenTCP returns it.
WriteRequest(ok) ==
  /\ opc = "dialed"
  /\ opc' = IF ok THEN "reading" ELSE "failed"
  /\ wire' = Append(wire, SerialRequest)
  /\ lastStep' = "request"
  /\ UNCHANGED << dev, wpc, api, argIndex, btnIndex, areaX, imgLen, pageNumber,
                  bytesRemaining, bytesSent, chunks, result, dpc, now, buttonMask,
                  buttonTime, encoderButtonMask, encoderButtonTime,
                  lastIncomingDataTime, data, events, hist, sessionVars, listenVars,
                  task2, serialNumber, rawVars >>

\* n > int(4+chars), the sum taken in 16 bits; before it, a faulty variant
\* that takes any frame.
FrameHoldsAlways(n, chars) == TRUE
FrameHolds(n, chars) == n > (4 + chars) % 65536

\* One iteration of the read loop: conn.Read put the n bytes of frame r into
\* the zeroed buffer.  A matching frame gives data[4 : 4+chars] (a panic where
\* the 16-bit sum is below 4); the loop goes on while the serial is empty.
ReadReply(r, n) ==
  /\ opc = "reading"
  /\ data' = r
  /\ LET chars == BigEndian16(Byte(r, 2), Byte(r, 3))
         hi == (4 + chars) % 65536
     IN  IF Byte(r, 0) = 3 /\ Byte(r, 1) = 132 /\ FrameHolds(n, chars)
           THEN IF hi < 4 \/ hi > ReportBufferLen
                  THEN opc' = "panicked" /\ serialNumber' = serialNumber
                  ELSE /\ serialNumber' = [k \in 1..(hi - 4) |-> Byte(r, 3 + k)]
                       /\ opc' = IF hi - 4 > 0 THEN "lookup" ELSE "reading"
           ELSE opc' = "reading" /\ serialNumber' = serialNumber
  /\ lastStep' = "reply"
  /\ UNCHANGED << dev, writeVars, dpc, now, buttonMask, buttonTime, encoderButtonMask,
                  encoderButtonTime, lastIncomingDataTime, events, hist,
                  sessionVars, listenVars, task2, rawVars >>

\* conn.Read fails: OpenTCP returns the error.
ReadReplyError ==
  /\ opc = "reading"
  /\ opc' = "failed"
  /\ lastStep' = "replyError"
  /\ UNCHANGED << dev, writeVars, dpc, now, buttonMask, buttonTime, encoderButtonMask,
                  encoderButtonTime, lastIncomingDataTime, data, events, hist,
                  sessionVars, listenVars, task2, serialNumber, rawVars >>

\* The descriptor lookup: the first registered type with product id 0xaa is
\* adopted, the device marked isIP and its listener started; without one,
\* "Unknown error".
AdoptDescriptor ==
  /\ opc = "lookup"
  /\ IF \E k \in 1..Len(registry) : registry[k].usbProductID = StudioProductID
       THEN /\ opc' = "opened"
            /\ isIP' = TRUE
            /\ watchdog' = "polling"
            /\ dpc' = "running"
            /\ started' = started + 1
       ELSE /\ opc' = "failed"
            /\ UNCHANGED << isIP, watchdog, dpc, started >>
  /\ lastStep' = "lookup"
  /\ UNCHANGED << dev, writeVars, now, buttonMask, buttonTime, encoderButtonMask,
                  encoderButtonTime, lastIncomingDataTime, data, events, hist,
                  fd, closer, readFailed, disconnects, listenVars, task2,
                  serialNumber, registry, ro, features, brightnessBuf, buttonMap >>

(***************************************************************************)
(* The write specification: one device, one caller issuing operations.     *)
(***************************************************************************)
WriteIdle ==
  /\ wpc = "idle"
  /\ api = "none"
  /\ argIndex = 0
  /\ btnIndex = 0
  /\ areaX = 0
  /\ imgLen = 0
  /\ pageNumber = 0
  /\ bytesRemaining = 0
  /\ bytesSent = 0
  /\ wire = << >>
  /\ chunks = << >>
  /\ result = "none"

InitWrite ==
  /\ dev \in DeviceNames
  /\ WriteIdle
  /\ DecodeStart
  /\ SessionLocal
  /\ OneListenerEach
  /\ Task2Idle
  /\ OpenDone

NextWrite ==
  \/ \E idx \in Indices(d), n \in PayloadLens : WriteColorToButton(idx, n)
  \/ \E idx \in Indices(d), n \in PayloadLens : WriteRawImageToButton(idx, n)
  \/ \E idx \in Indices(d), n \in PayloadLens, fileOk \in BOOLEAN :
       WriteImageToButton(idx, n, fileOk)
  \/ \E x \in AreaXs, n \in PayloadLens : WriteRawImageToAreaUnscaled(x, n)
  \/ rawWriteToButton
  \/ rawWriteToArea
  \/ ReturnNil

SpecWrite == InitWrite /\ [][NextWrite]_vars

(***************************************************************************)
(* Reading a packet as the device does: where the header keeps its fields. *)
(* The button header and the Neo area header keep the final-chunk flag at  *)
(* byte 3, the chunk length at bytes 4-5 and the page number at bytes 6-7; *)
(* the Plus area header keeps them at bytes 10, 13-14 and 11-12.           *)
(***************************************************************************)
ButtonApis == {"WriteColorToButton", "WriteRawImageToButton", "WriteImageToButton"}
AreaApis == {"WriteRawImageToAreaUnscaled"}

PlusAreaLayout == api \in AreaApis /\ dev = plusName

FlagField(pkt) == IF PlusAreaLayout THEN pkt[11] ELSE pkt[4]

LengthField(pkt) ==
  IF PlusAreaLayout THEN LittleEndian16(pkt[14], pkt[15])
                    ELSE LittleEndian16(pkt[5], pkt[6])

PageField(pkt) ==
  IF PlusAreaLayout THEN LittleEndian16(pkt[12], pkt[13])
                    ELSE LittleEndian16(pkt[7], pkt[8])

CeilDiv(a, b) == (a + b - 1) \div b

ValidIndex(idx) == 0 <= idx /\ idx < d.numberOfButtons

\* A button write that got past the public operation's checks with a button
\* of the device as its target.
ButtonWriteRan ==
  /\ api \in ButtonApis
  /\ wpc \in {"button", "returned"}
  /\ HasImageCapability(d)
  /\ ValidIndex(btnIndex)
  /\ result # "FileError"

\* A write whose loop ran to its end.
LoopCompleted == wpc = "returned" /\ result = "ok" /\ bytesRemaining = 0 /\ bytesSent = imgLen

(***************************************************************************)
(* Claims about the outbound framer, checked under SpecWrite.              *)
(***************************************************************************)

\* C1: on every descriptor registered here (none is the half-chunk family), a
\* button write of an N-byte payload, N >= 0, issues exactly
\* ceil(N / (packetCapacity - headerLength)) transport writes, each of exactly
\* packetCapacity bytes, carrying the page numbers 0, 1, ..., k-1 in that order.
C1_PacketCount ==
  ButtonWriteRan =>
    /\ \A k \in 1..Len(wire) :
         /\ Len(wire[k]) = d.imagePayloadPerPage
         /\ PageField(wire[k]) = k - 1
    /\ wpc = "returned" =>
         Len(wire) = CeilDiv(imgLen, d.imagePayloadPerPage
                                       - Len(imageHeaderFunc(d, 0, 0, 0)))

\* C1 witness: a returned button write of three packets whose last is partly filled.
C1_Witness ==
  /\ ButtonWriteRan
  /\ wpc = "returned"
  /\ Len(wire) = 3
  /\ chunks[3].thisLength < chunks[1].thisLength

\* C2 (as claimed): in the packets of one button or area write of N >= 1
\* bytes, the final-chunk flag is 1 in the last packet and 0 in every earlier one.
C2_FinalFlagOnLastOnly ==
  (LoopCompleted /\ imgLen >= 1 /\ api \in (ButtonApis \cup AreaApis)
     /\ (api \in ButtonApis => ButtonWriteRan)) =>
    /\ Len(wire) >= 1
    /\ FlagField(wire[Len(wire)]) = 1
    /\ \A k \in 1..(Len(wire) - 1) : FlagField(wire[k]) = 0

\* C3 (as claimed): in every packet of a button or area write the 16-bit
\* little-endian chunk-length field equals the number of payload bytes the
\* packet carries, min(packetCapacity - len(header), bytesRemaining).
C3_LengthFieldIsChunk ==
  \A k \in 1..Len(wire) :
    /\ LengthField(wire[k]) = chunks[k].thisLength
    /\ chunks[k].thisLength =
         Min(d.imagePayloadPerPage - chunks[k].headerLength, chunks[k].bytesRemaining)

\* C4 (as claimed): a button write to index numberOfButtons fails with
\* InvalidIndex and issues no transport write; a button write sends a packet
\* only if 0 <= index < numberOfButtons.
C4_IndexOnePastRefused ==
  /\ (api \in ButtonApis /\ wire # << >>) => ValidIndex(btnIndex)
  /\ (wpc = "returned" /\ api \in {"WriteColorToButton", "WriteRawImageToButton"}
        /\ HasImageCapability(d) /\ btnIndex = d.numberOfButtons /\ imgLen >= 1) =>
       /\ wire = << >>
       /\ result = "InvalidIndex"

\* C5 (as claimed): WriteColorToButton, WriteRawImageToButton and
\* WriteImageToButton called with an index outside [0, numberOfButtons)
\* return an error; none of them reports success.
C5_OutOfRangeReturnsError ==
  (wpc = "returned" /\ api \in ButtonApis /\ ~ValidIndex(argIndex)) =>
    result \notin {"ok", "panic"}

\* C6 (as claimed): a button image write on a descriptor with no image
\* capability, and an area write on a descriptor with no image capability or
\* no area header, return UnsupportedOperation and issue no transport write.
C6_UnsupportedOperation ==
  ((api \in ButtonApis /\ ~HasImageCapability(d))
     \/ (api \in AreaApis /\ (~HasImageCapability(d) \/ ~d.areaHeader))) =>
    /\ wire = << >>
    /\ wpc = "returned" => result = "UnsupportedOperation"

(***************************************************************************)
(* The button specification: one device, its decoder reading button        *)
(* reports while time passes.                                              *)
(***************************************************************************)
\* The reports in which the first MaxKeys buttons are each up or down.
ButtonReports(dt) ==
  { << 1 >> \o Zeros(dt.buttonReadOffset - 1) \o keys :
      keys \in [1..Min(MaxKeys, dt.numberOfButtons) -> {0, 1}] }

\* How long the listeners of one event take.
HandlerDelays == {0, TickMs}

\* One legacy descriptor and one extended one.
DecoderDevices == {mk2Name, plusName}

InitButtons ==
  /\ dev \in DecoderDevices
  /\ WriteIdle
  /\ DecodeStart
  /\ SessionLocal
  /\ OneListenerEach
  /\ Task2Idle
  /\ OpenDone

NextButtons ==
  \/ \E r \in ButtonReports(d), hd \in HandlerDelays : ReadReport(r, hd, TRUE)
  \/ Tick

SpecButtons == InitButtons /\ [][NextButtons]_vars

Keys == DOMAIN hist

\* C7: on a legacy descriptor, a button's first 0->1 transition followed
\* at least 100 ms later by its 1->0 transition has yielded exactly one press
\* and then exactly one release, whenever after open the 0->1 came.
C7_PressThenRelease ==
  \A i \in Keys :
    (/\ ~IsExtended(d)
     /\ hist[i].downs = 1
     /\ ~hist[i].down
     /\ hist[i].heldFor >= DebounceMs) =>
      /\ hist[i].presses = 1
      /\ hist[i].releases = 1
      /\ hist[i].lastKind = "release"

\* C8: any two presses sent for one button are at least 100 ms apart, and a
\* 0->1 transition less than 100 ms after the button's last press sends no
\* press.
C8_PressesDebounced ==
  \A i \in Keys :
    /\ hist[i].pressGap >= 0 => hist[i].pressGap >= DebounceMs
    /\ (hist[i].downGap >= 0 /\ hist[i].downGap < DebounceMs) =>
         ~hist[i].pressAtDown

C8_Witness ==
  \E i \in Keys :
    /\ hist[i].pressGap >= 0
    /\ hist[i].down
    /\ hist[i].downGap >= 0
    /\ hist[i].downGap < DebounceMs
    /\ hist[i].presses = 0

\* C9: the events sent for one button go press, release, press, ...
\* starting with a press; a release is sent only for a press sent since the
\* previous release, so a down period whose press was suppressed sends no
\* release.
C9_ReleaseOnlyAfterPress ==
  \A i \in Keys :
    /\ hist[i].alternates
    /\ hist[i].releases <= hist[i].presses

C9_Witness ==
  /\ \E i \in Keys :
       /\ hist[i].downs >= 1
       /\ ~hist[i].down
       /\ hist[i].presses = 0
       /\ hist[i].releases = 0
  /\ \E j \in Keys : hist[j].lastKind = "release" /\ hist[j].downs = 2

(***************************************************************************)
(* The rotate specification: a Plus decoder reading encoder rotate         *)
(* reports.                                                                *)
(***************************************************************************)
\* The slot bytes tried: none, +1, the largest positive, the two ends of the
\* negative range.
SlotBytes == {0, 1, 127, 128, 255}

RotateReports ==
  { << 1, 3, 0, 0, 1 >> \o slots : slots \in [1..numberOfEncoders -> SlotBytes] }

InitRotate ==
  /\ dev = plusName
  /\ WriteIdle
  /\ DecodeStart
  /\ SessionLocal
  /\ OneListenerEach
  /\ Task2Idle
  /\ OpenDone

NextRotate ==
  \/ \E r \in RotateReports : ReadReport(r, 0, TRUE)
  \/ ReadError

SpecRotate == InitRotate /\ [][NextRotate]_vars

\* The byte of encoder slot i in the report last read.
SlotByte(i) == Byte(data, encoderReadOffset + i)

\* C10: after a rotate report, the events are one rotation per slot whose
\* byte b is nonzero, in slot order, with delta b for b <= 127 and b - 256 for
\* b >= 128; a slot whose byte is 0 has none.
C10_RotateDeltas ==
  (lastStep = "report" /\ Byte(data, 1) = 3 /\ Byte(data, 4) = 1) =>
    LET turned == { i \in 0..(numberOfEncoders - 1) : SlotByte(i) # 0 }
    IN  /\ Len(events) = Cardinality(turned)
        /\ \A k \in 1..Len(events) :
             /\ events[k].cat = "encoderRotate"
             /\ events[k].idx \in turned
             /\ k > 1 => events[k - 1].idx < events[k].idx
             /\ events[k].val = IF SlotByte(events[k].idx) <= 127
                                  THEN SlotByte(events[k].idx)
                                  ELSE SlotByte(events[k].idx) - 256

C10_Witness ==
  /\ lastStep = "report"
  /\ SlotByte(0) = 255
  /\ SlotByte(1) = 0
  /\ SlotByte(2) = 1
  /\ SlotByte(3) = 128
  /\ Len(events) = 3
  /\ events[1].val = -1
  /\ events[2].val = 1
  /\ events[3].val = -128

(***************************************************************************)
(* The session specification: a network session of the Studio or a local   *)
(* session of the Plus, the device sending frames of every sub-protocol,    *)
(* until a read error, Close or the watchdog ends it.                       *)
(***************************************************************************)
\* One frame of each sub-protocol: keep-alive, the buttons' states (all up),
\* touch tap at (5, 7), encoder 0 turned by +1, NFC tag "AB".
KeepAliveFrame == << 1, 10 >>
SessionFrames ==
  { KeepAliveFrame,
    << 1, 0, 0, 0, 0 >>,
    << 1, 2, 0, 0, 1, 0, 5, 0, 7, 0 >>,
    << 1, 3, 0, 0, 1, 1 >>,
    << 1, 4, 2, 0, 65, 66 >> }

InitSession ==
  /\ \/ dev = studioName /\ SessionNetwork
     \/ dev = plusName /\ SessionLocal
  /\ WriteIdle
  /\ DecodeStart
  /\ OneListenerEach
  /\ Task2Idle
  /\ OpenDone

NextSession ==
  \/ \E r \in SessionFrames, writeOk \in BOOLEAN :
       Len(wire) < MaxReplies /\ ReadReport(r, 0, writeOk)
  \/ ReadError
  \/ Close
  \/ WatchdogPoll
  \/ Wait

\* The decoder goroutine runs: a Read on a closed transport returns its error.
ReadClosed == fd = "closed" /\ ReadError

SpecSession == InitSession /\ [][NextSession]_vars /\ WF_vars(ReadClosed)

\* The disconnect event: a press of index -1 carrying the error.
IsDisconnect(e) == e.cat = "press" /\ e.idx = -1 /\ e.arg = << "err" >>

\* C11: the step in which the read fails sends exactly one disconnect event
\* (to the press/release listeners); from then on no report is read, nothing
\* is written and no event of any category is sent.
C11_ReadFailureEndsLoop ==
  [][ /\ (~readFailed /\ readFailed') =>
           /\ Len(events') = 1
           /\ IsDisconnect(events'[1])
           /\ Len(delivered') = Len(listeners["button"])
      /\ readFailed =>
           /\ dpc' = "stopped"
           /\ events' = events
           /\ delivered' = delivered
           /\ data' = data
           /\ wire' = wire ]_vars

C11_Witness ==
  /\ readFailed
  /\ dpc = "stopped"
  /\ fd = "open"
  /\ Len(events) = 1
  /\ IsDisconnect(events[1])
  /\ Len(delivered) = 1
  /\ now > events[1].at

\* C12 (as claimed): whatever failure ends a session, at most one
\* disconnect event is ever sent.
C12_AtMostOneDisconnect == disconnects <= 1

\* C13: once the caller has called Close the transport is closed, no
\* report is read any more, and the decoder loop eventually ends through a read
\* error, having sent a disconnect event.
C13_CloseEndsDecoder ==
  /\ [](closer = "caller" => fd = "closed")
  /\ [][closer = "caller" => data' = data]_vars
  /\ (closer = "caller") ~> (dpc = "stopped" /\ readFailed /\ disconnects >= 1)

C13_Witness ==
  /\ closer = "caller"
  /\ fd = "closed"
  /\ lastStep = "error"
  /\ dpc = "stopped"
  /\ Len(events) = 1
  /\ IsDisconnect(events[1])

\* C14: on a network session the liveness timestamp is refreshed by every
\* frame received, whatever its sub-protocol: right after a report has been
\* processed the timestamp is the time of that report.
C14_EveryFrameRefreshes ==
  (isIP /\ lastStep = "report" /\ dpc = "running") => lastIncomingDataTime = now

\* C15: on a network session a watchdog poll (every PollMs) closes the
\* connection exactly when the liveness timestamp is more than WatchdogTimeoutMs
\* old, and after that the decoder's read fails and a disconnect event is
\* delivered; a local session has no watchdog and is never closed by one.
C15_WatchdogCloses ==
  /\ [][lastStep' = "poll" =>
          /\ isIP
          /\ now' = now + PollMs
          /\ IF now' - lastIncomingDataTime > WatchdogTimeoutMs
               THEN fd' = "closed" /\ watchdog' = "returned"
               ELSE fd' = fd /\ watchdog' = "polling"]_vars
  /\ [](~isIP => closer # "watchdog" /\ watchdog # "returned")
  /\ (closer = "watchdog") ~> (dpc = "stopped" /\ readFailed /\ disconnects >= 1)

C15_Witness ==
  /\ isIP
  /\ closer = "watchdog"
  /\ watchdog = "returned"
  /\ lastStep = "error"
  /\ dpc = "stopped"
  /\ now - lastIncomingDataTime > WatchdogTimeoutMs
  /\ Len(events) = 1
  /\ IsDisconnect(events[1])

FirstBytes == {0, 1, 2}

\* The reports in which the first MaxKeys buttons are each up or down, under
\* each first byte.
LegacyReports(dt) ==
  { << b0 >> \o Zeros(dt.buttonReadOffset - 1) \o keys :
      b0 \in FirstBytes,
      keys \in [1..Min(MaxKeys, dt.numberOfButtons) -> {0, 1}] }

LegacyDevices == {mk2Name, pedalName}

InitLegacy ==
  /\ dev \in LegacyDevices
  /\ WriteIdle
  /\ DecodeStart
  /\ SessionLocal
  /\ OneListenerEach
  /\ Task2Idle
  /\ OpenDone

NextLegacy ==
  \/ \E r \in LegacyReports(d) : ReadReport(r, 0, TRUE)
  \/ Tick

SpecLegacy == InitLegacy /\ [][NextLegacy]_vars

\* C17 as stated: on a legacy descriptor the button bytes are decoded whatever
\* data[0] is, so after any report a button the report shows up is not latched
\* down.
C17_ByteZeroIgnored ==
  (lastStep = "report" /\ ~IsExtended(d)) =>
    \A i \in Keys : Byte(data, d.buttonReadOffset + i) # 1 => ~buttonMask[i]

\* C17: on a legacy descriptor a report is decoded only when data[0] = 1: then
\* a button shown up is unlatched, with a release sent if it was latched, and
\* a button shown down past its debounce window is latched, with a press sent
\* if it was not; a report with another data[0] sends no event and leaves the
\* latches and timers as they were.
C17_ByteZeroGuards ==
  [][(lastStep' = "report" /\ ~IsExtended(d)) =>
       IF Byte(data', 0) = 1
         THEN \A i \in Keys :
                LET sent(cat) == \E k \in 1..Len(events') :
                                   events'[k].cat = cat /\ events'[k].src = i
                IN  IF Byte(data', d.buttonReadOffset + i) # 1
                      THEN /\ ~buttonMask'[i]
                           /\ sent("release") <=> buttonMask[i]
                           /\ ~sent("press")
                      ELSE /\ buttonMask'[i] <=>
                                (buttonMask[i] \/ now > buttonTime[i] + DebounceMs)
                           /\ sent("press") <=>
                                (~buttonMask[i] /\ now > buttonTime[i] + DebounceMs)
                           /\ ~sent("release")
         ELSE /\ events' = << >>
              /\ buttonMask' = buttonMask
              /\ buttonTime' = buttonTime]_vars

C17_Witness ==
  /\ ~IsExtended(d)
  /\ lastStep = "report"
  /\ Byte(data, 0) # 1
  /\ Byte(data, d.buttonReadOffset) = 0
  /\ buttonMask[0]
  /\ events = << >>

(***************************************************************************)
(* Handlers registered while an extended device reports buttons and        *)
(* rotations.                                                              *)
(***************************************************************************)
\* Button 0 down, all buttons up, and a rotation of two encoders at once.
ListenReports ==
  { << 1, 0, 0, 0, 1 >>, << 1, 0, 0, 0, 0 >>, << 1, 3, 0, 0, 1, 1, 0, 255, 0 >> }

InitListen ==
  /\ dev = plusName
  /\ WriteIdle
  /\ DecodeStart
  /\ SessionLocal
  /\ NoListeners
  /\ Task2Idle
  /\ OpenDone

NextListen ==
  \/ \E r \in ListenReports, hd \in HandlerDelays : ReadReport(r, hd, TRUE)
  \/ ReadError
  \/ \E ch \in ListenChannels, h \in Handlers : Subscribe(ch, h)

SpecListen == InitListen /\ [][NextListen]_vars

\* The place of handler h in the slice of channel ch.
PlaceOf(ch, h) == CHOOSE j \in 1..Len(listeners[ch]) : listeners[ch][j] = h

\* C18: after a report (or a read error) has been processed, the calls made
\* are, event by event in decode order, one call of each handler registered on
\* the event's channel, in registration order; every call begins after the one
\* before it has returned, and all have returned when the loop reads again.
C18_SynchronousInOrder ==
  (lastStep \in {"report", "error"}) =>
    /\ \A p \in 1..Len(delivered) :
         /\ delivered[p].k \in 1..Len(events)
         /\ \E j \in 1..Len(listeners[Channel(events[delivered[p].k].cat)]) :
              listeners[Channel(events[delivered[p].k].cat)][j] = delivered[p].h
         /\ delivered[p].at >= events[delivered[p].k].at
         /\ delivered[p].ret >= delivered[p].at
         /\ delivered[p].ret <= now
    /\ \A k \in 1..Len(events) :
         \A j \in 1..Len(listeners[Channel(events[k].cat)]) :
           Cardinality({ p \in 1..Len(delivered) :
                           /\ delivered[p].k = k
                           /\ delivered[p].h = listeners[Channel(events[k].cat)][j] }) = 1
    /\ \A p, q \in 1..Len(delivered) :
         p < q =>
           /\ delivered[p].ret <= delivered[q].at
           /\ \/ delivered[p].k < delivered[q].k
              \/ /\ delivered[p].k = delivered[q].k
                 /\ PlaceOf(Channel(events[delivered[p].k].cat), delivered[p].h)
                      < PlaceOf(Channel(events[delivered[q].k].cat), delivered[q].h)

C18_Witness ==
  /\ lastStep = "report"
  /\ listeners["encoderRotate"] = << "h2", "h1" >>
  /\ Len(events) = 2
  /\ Len(delivered) = 4
  /\ delivered[1].h = "h2"
  /\ delivered[2].h = "h1"
  /\ delivered[2].k = 1
  /\ delivered[3].k = 2
  /\ delivered[1].ret > delivered[1].at
  /\ now = delivered[4].ret

(***************************************************************************)
(* Two caller tasks writing button images to one extended device while its *)
(* decoder answers keep-alive reports.                                     *)
(***************************************************************************)
\* The image length that fills MaxPages packets.
LongLens ==
  { MaxPages * (d.imagePayloadPerPage - Len(imageHeaderFunc(d, 0, 0, 0))) }

InitConcurrent ==
  /\ dev = plusName
  /\ WriteIdle
  /\ DecodeStart
  /\ SessionLocal
  /\ OneListenerEach
  /\ Task2Idle
  /\ OpenDone

\* The keep-alive replies on the wire.
Replies == SelectSeq(wire, LAMBDA f : f = KeepAliveReply)

NextConcurrent ==
  \/ \E n \in LongLens : WriteRawImageToButton(0, n)
  \/ rawWriteToButton
  \/ ReturnNil
  \/ \E n \in LongLens : Task2Call(1, n)
  \/ Task2Write
  \/ Task2Return
  \/ Replies = << >> /\ ReadReport(KeepAliveFrame, 0, TRUE)

SpecConcurrent == InitConcurrent /\ [][NextConcurrent]_vars

\* Packet f is a button-image packet for wire button b.
IsImagePacket(f, b) == f[1] = 2 /\ f[2] = 7 /\ f[3] = b

\* C19: nothing serializes the senders: while both callers are inside their
\* framing loops each of them can send its next packet, and while a caller is
\* inside its loop the decoder can answer a keep-alive report; each caller's
\* own packets are on the wire in its page order.
C19_WritesNotSerialized ==
  /\ (/\ wpc = "button" /\ bytesRemaining > 0
      /\ task2.pc = "loop" /\ task2.bytesRemaining > 0) =>
        (ENABLED rawWriteToButton) /\ (ENABLED Task2Write)
  /\ (wpc = "button" /\ bytesRemaining > 0 /\ dpc = "running") =>
        ENABLED ReadReport(KeepAliveFrame, 0, TRUE)
  /\ \A b \in {0, 1} :
       LET mine == SelectSeq(wire, LAMBDA f : IsImagePacket(f, b))
       IN  \A p \in 1..Len(mine) : LittleEndian16(mine[p][7], mine[p][8]) = p - 1

\* A packet of the second write and a keep-alive reply each lie on the wire
\* between two packets of the first write.
C19_Witness ==
  /\ \E i, j, k \in 1..Len(wire) :
       /\ i < j /\ j < k
       /\ IsImagePacket(wire[i], 0) /\ IsImagePacket(wire[k], 0)
       /\ IsImagePacket(wire[j], 1)
  /\ \E i, j, k \in 1..Len(wire) :
       /\ i < j /\ j < k
       /\ IsImagePacket(wire[i], 0) /\ IsImagePacket(wire[k], 0)
       /\ wire[j] = KeepAliveReply

(***************************************************************************)
(* Opening a network device whose replies carry serials of several lengths *)
(* among frames that are no reply.                                         *)
(***************************************************************************)
\* The bytes a serial is made of: "A", "B", "1", "2".
SerialBytes == {65, 66, 49, 50}

\* Serials of up to MaxSerial bytes, and the two longest a frame has room for.
Serials ==
  UNION { [1..len -> SerialBytes] : len \in 1..MaxSerial }
    \cup { [k \in 1..len |-> 65] : len \in {ReportBufferLen - 5, ReportBufferLen - 4} }

\* A frame of ReportBufferLen bytes beginning with the bytes of head.
Frame(head) == head \o Zeros(ReportBufferLen - Len(head))

\* The reply carrying serial sn.
SerialReply(sn) == Frame(<< 3, 132, Hi(Len(sn)), Lo(Len(sn)) >> \o sn)

\* Frames that are no serial reply: another 03 report, and a serial reply's
\* body under another first byte.
OtherFrames == { Frame(<< 3, 26 >>), Frame(<< 1, 132, 0, 2, 65, 66 >>) }

InitOpen ==
  /\ dev = studioName
  /\ registry = knownTypes
  /\ WriteIdle
  /\ DecoderFresh
  /\ OpenNotStarted
  /\ OneListenerEach
  /\ Task2Idle

NextOpen ==
  \/ \E ok \in BOOLEAN : Dial(ok)
  \/ \E ok \in BOOLEAN : WriteRequest(ok)
  \/ \E sn \in Serials : ReadReply(SerialReply(sn), ReportBufferLen)
  \/ \E r \in OtherFrames : ReadReply(r, ReportBufferLen)
  \/ ReadReplyError
  \/ AdoptDescriptor

SpecOpen == InitOpen /\ [][NextOpen]_vars

\* The length field of the frame last read.
ReplyLength == BigEndian16(Byte(data, 2), Byte(data, 3))

\* C20: when the frame just read is a serial reply (03 84) whose length field
\* L >= 1 counts bytes the frame holds from offset 4, the serial is those L
\* bytes and the read loop is over; the request frame, 03 84 and zeroes in 1024
\* bytes, was the one write before any reply was read; a frame with another
\* header leaves the serial unresolved and the loop reading.
C20_SerialResolved ==
  /\ (opc \in {"reading", "lookup", "opened"}) => wire = << SerialRequest >>
  /\ lastStep = "reply" =>
       IF Byte(data, 0) = 3 /\ Byte(data, 1) = 132
         THEN (ReplyLength >= 1 /\ 4 + ReplyLength <= Len(data)) =>
                /\ serialNumber = SubSeq(data, 5, 4 + ReplyLength)
                /\ opc = "lookup"
         ELSE serialNumber = << >> /\ opc = "reading"

(***************************************************************************)
(* Opening a device, locally or over the network, against a registry that  *)
(* grows: descriptors sharing a product id, devices without a descriptor.  *)
(***************************************************************************)
\* A second descriptor registered under the MK2's product id.
mk2Twin == [deviceTypes[1] EXCEPT !.name = "Streamdeck MK2 (twin)",
                                  !.resetPacket = << 3, 2, 0 >>]

\* The descriptors registered: the MK2, its twin, the Pedal and the Studio.
Registrations == { deviceTypes[1], mk2Twin, deviceTypes[2], studioType }

\* What hid.Enumerate may list: an MK2, a second MK2, a Pedal and a device of
\* no registered type.
HidDevices ==
  { [ProductID |-> 128, Serial |-> "S1"], [ProductID |-> 128, Serial |-> "S2"],
    [ProductID |-> 134, Serial |-> "S3"], [ProductID |-> 99, Serial |-> "S4"] }

Enumerations == UNION { [1..n -> HidDevices] : n \in 0..MaxDevices }

\* The serials OpenBySerial is asked for: two present ones and an absent one.
AskedSerials == { "S1", "S3", "S9" }

InitOpens ==
  /\ dev = mk2Name
  /\ registry = << >>
  /\ WriteIdle
  /\ DecoderFresh
  /\ OpenNotStarted
  /\ OneListenerEach
  /\ Task2Idle

NextOpens ==
  \/ \E dt \in Registrations : RegisterDevicetype(dt)
  \/ \E devices \in Enumerations : Open(devices)
  \/ \E serial \in AskedSerials, devices \in Enumerations : OpenBySerial(serial, devices)
  \/ \E devices \in Enumerations : OpenWithoutReset(devices)
  \/ \E ok \in BOOLEAN : DeviceOpen(ok)
  \/ ResetComms
  \/ StartListener
  \/ \E ok \in BOOLEAN : Dial(ok)
  \/ \E ok \in BOOLEAN : WriteRequest(ok)
  \/ \E r \in OtherFrames \cup { SerialReply(<< 65, 66, 49, 50 >>) } :
       ReadReply(r, ReportBufferLen)
  \/ ReadReplyError
  \/ AdoptDescriptor

SpecOpens == InitOpens /\ [][NextOpens]_vars

\* rawOpen has matched a device and a descriptor.
Selected == ro.pc \in {"open", "reset", "start", "returned"} /\ ro.di # 0

\* C21: the descriptor an open session holds is the earliest registered one
\* with the product id of the device it opened, whatever else is registered
\* with that id, before or after the open; an open that matched nothing holds
\* none.
C21_FirstRegisteredWins ==
  /\ Selected =>
       LET pid == ro.devices[ro.di].ProductID
           same == { j \in 1..Len(registry) : registry[j].usbProductID = pid }
       IN  /\ same # {}
           /\ ro.deviceType = registry[CHOOSE j \in same : \A k \in same : j <= k]
  /\ (ro.pc = "returned" /\ ro.di = 0) => ro.deviceType = << >>

C21_Witness ==
  /\ Selected
  /\ ro.pc = "returned"
  /\ ro.err = "none"
  /\ lastStep = "register"
  /\ Len(registry) = 2
  /\ registry[1].usbProductID = registry[2].usbProductID
  /\ registry[1].name # registry[2].name
  /\ ro.deviceType.name = registry[1].name

\* C22: an open that has returned an error (nothing enumerated, no descriptor
\* or serial matching, the transport failing to open, a network open failing
\* or finding no descriptor) has started no listener and returns no handle; an
\* open that has returned a handle has started exactly one; never are there
\* two.
C22_OneDecoderPerHandle ==
  /\ started <= 1
  /\ (ro.pc = "returned" /\ ro.err # "none") =>
       started = 0 /\ ~ro.handle /\ dpc = "unstarted"
  /\ (ro.pc = "returned" /\ ro.err = "none") =>
       started = 1 /\ ro.handle /\ dpc = "running" /\ fd = "open"
  /\ (ro.pc # "idle" /\ ro.pc # "returned") => started = 0 /\ dpc = "unstarted"
  /\ opc \in {"failed", "dialed", "reading", "lookup"} =>
       started = 0 /\ dpc = "unstarted"
  /\ opc = "opened" => started = 1 /\ dpc = "running" /\ fd = "open"

C22_Witness ==
  /\ ro.pc = "returned"
  /\ ro.err = "OpenError"
  /\ ro.di # 0
  /\ started = 0
  /\ ~ro.handle

\* C23: Open and OpenBySerial have sent the descriptor's reset packet, once,
\* when the listener is about to start and ever after, and sent it with the
\* transport open; before the transport is open nothing is sent;
\* OpenWithoutReset sends nothing at all.
C23_ResetBeforeListener ==
  /\ features # << >> => fd = "open"
  /\ ro.pc \in {"open", "reset"} => features = << >> /\ started = 0
  /\ (ro.pc \in {"start", "returned"} /\ ro.err = "none") =>
       IF ro.api \in {"Open", "OpenBySerial"}
         THEN features = << ro.deviceType.resetPacket >>
         ELSE features = << >>
  /\ ro.pc = "start" => started = 0
  /\ (ro.pc = "returned" /\ ro.err # "none") => features = << >>

C23_Witness ==
  /\ ro.pc = "start"
  /\ ro.api = "OpenBySerial"
  /\ ro.serial = "S3"
  /\ fd = "open"
  /\ started = 0
  /\ features = << resetPacket32 >>

(***************************************************************************)
(* A caller setting the brightness of an open device, over and over.       *)
(***************************************************************************)
\* The percentages passed: below, at and above the ends of 0..100, and beyond
\* a byte.
Pcts == {-300, -1, 0, 1, 50, 100, 101, 255, 256, 356}

InitBrightness ==
  /\ dev \in {mk2Name, plusName}
  /\ WriteIdle
  /\ DecodeStart
  /\ SessionLocal
  /\ OneListenerEach
  /\ Task2Idle
  /\ opc = "opened"
  /\ serialNumber = << >>
  /\ registry = knownTypes
  /\ ro = RawOpenIdle
  /\ features = << >>
  /\ started = 1
  /\ brightnessBuf \in { ExactBuf(d.brightnessPacket), RoomyBuf(d.brightnessPacket, 1) }
  /\ buttonMap = NilMap

NextBrightness ==
  \E pct \in Pcts : Len(features) < MaxBrightnessCalls /\ SetBrightness(pct)

SpecBrightness == InitBrightness /\ [][NextBrightness]_vars

\* C24: a SetBrightness(pct) step hands one report to the transport, the
\* descriptor's brightness template followed by one byte, pct cut to 0..100;
\* it writes no frame, and the template reads afterwards as it did before.
C24_BrightnessClamped ==
  [][lastStep' = "brightness" =>
       LET pct == argIndex'
           value == IF pct < 0 THEN 0 ELSE IF pct > 100 THEN 100 ELSE pct
       IN  /\ features' = Append(features, d.brightnessPacket \o << value >>)
           /\ wire' = wire
           /\ SliceOf(brightnessBuf') = d.brightnessPacket
           /\ SliceOf(brightnessBuf) = d.brightnessPacket]_vars

C24_Witness ==
  /\ lastStep = "brightness"
  /\ argIndex = 356
  /\ Len(brightnessBuf.arr) > brightnessBuf.len
  /\ features = << d.brightnessPacket \o << 0 >>, d.brightnessPacket \o << 100 >> >>
  /\ SliceOf(brightnessBuf) = d.brightnessPacket


(***************************************************************************)
(* ClearButtons: WriteColorToButton(i, black) for i = 0 .. numberOfButtons *)
(* - 1, each call run to its return and its result dropped.                *)
(***************************************************************************)
\* The packets rawWriteToButton's loop sends from (bytesRemaining, pageNumber,
\* bytesSent) on, for an image of n bytes and wire button btn; panic where Go
\* panics on the slice or on make().
RECURSIVE ButtonFrames(_, _, _, _, _, _)
ButtonFrames(dt, btn, n, remaining, page, sent) ==
  IF remaining <= 0
    THEN [frames |-> << >>, panic |-> FALSE]
    ELSE LET header == imageHeaderFunc(dt, remaining, btn, page)
             imageReportLength == dt.imagePayloadPerPage
             thisLength == ButtonThisLength(dt.name, imageReportLength - Len(header),
                                            remaining, n \div 2)
             payload == header \o SubSeq(RawImage(n), sent + 1, sent + thisLength)
         IN  IF /\ thisLength > 0
                /\ sent + thisLength <= n
                /\ imageReportLength - Len(payload) >= 0
               THEN LET rest == ButtonFrames(dt, btn, n, remaining - thisLength,
                                             page + 1, sent + thisLength)
                    IN  [frames |-> << payload \o Zeros(imageReportLength - Len(payload)) >>
                                      \o rest.frames,
                         panic |-> rest.panic]
               ELSE [frames |-> << >>, panic |-> TRUE]

\* What one WriteColorToButton(idx, black) puts on the wire, n being the length
\* of the encoded black image: one outcome per key mapButtonIn may return.
WriteColorFrames(dt, idx, n) ==
  { IF ~HasImageCapability(dt) \/ ~KnownImageFormat(dt.imageFormat)
         \/ InvalidKeyIndex(dt, m)
      THEN [frames |-> << >>, panic |-> FALSE]
      ELSE ButtonFrames(dt, m, n, n, 0, 0)
    : m \in mapButtonIn(dt, idx) }

\* The loop of ClearButtons from i on: the wire of every outcome.  A panic
\* ends the loop.
RECURSIVE ClearFrom(_, _, _)
ClearFrom(dt, i, n) ==
  IF i >= dt.numberOfButtons
    THEN { [frames |-> << >>, panic |-> FALSE] }
    ELSE UNION { IF w.panic
                   THEN { w }
                   ELSE { [frames |-> w.frames \o rest.frames, panic |-> rest.panic]
                          : rest \in ClearFrom(dt, i + 1, n) }
                 : w \in WriteColorFrames(dt, i, n) }

ClearButtons(n) ==
  /\ CanCall
  /\ opc = "opened"
  /\ \E out \in ClearFrom(deviceType, 0, n) :
       /\ wire' = out.frames
       /\ result' = IF out.panic THEN "panic" ELSE "ok"
  /\ wpc' = "returned"
  /\ api' = "ClearButtons"
  /\ imgLen' = n
  /\ UNCHANGED << argIndex, btnIndex, areaX, pageNumber, bytesRemaining, bytesSent,
                  chunks, dev, decodeVars, sessionVars, listenVars, task2, openVars >>

\* Remap tables, from the button index on the wire to the logical index: none,
\* a swap of two buttons, one entry only, and two wire buttons with the same
\* logical index.
ButtonMaps ==
  { NilMap, (0 :> 1) @@ (1 :> 0), (0 :> 1), (0 :> 1) @@ (2 :> 1) }

\* Lengths of the encoded black image: one byte, and around 1..MaxPages packets.
ClearLens ==
  {1} \cup { (d.imagePayloadPerPage - Len(imageHeaderFunc(d, 0, 0, 0))) * p + s
             : p \in 1..MaxPages, s \in (0 - MaxSlack)..MaxSlack }

InitClear ==
  /\ dev \in ImageDevices
  /\ WriteIdle
  /\ DecodeStart
  /\ SessionLocal
  /\ OneListenerEach
  /\ Task2Idle
  /\ opc = "opened"
  /\ serialNumber = << >>
  /\ registry = knownTypes
  /\ ro = RawOpenIdle
  /\ features = << >>
  /\ started = 1
  /\ brightnessBuf = ExactBuf(d.brightnessPacket)
  /\ buttonMap \in ButtonMaps

NextClear == \E n \in ClearLens : ClearButtons(n)

SpecClear == InitClear /\ [][NextClear]_vars

\* The page numbers of the packets on the wire addressed to wire button b, in
\* the order sent.
PagesOf(b) ==
  LET ks == SelectSeq([k \in 1..Len(wire) |-> k], LAMBDA k : IsImagePacket(wire[k], b))
  IN  [j \in 1..Len(ks) |-> wire[ks[j]][7] + 256 * wire[ks[j]][8]]

\* The packets a write of n bytes takes.
PacketsOf(n) ==
  LET cap == d.imagePayloadPerPage - Len(imageHeaderFunc(d, 0, 0, 0))
  IN  (n + cap - 1) \div cap

\* C25: after ClearButtons, for every remap table, every physical button
\* index in [0, numberOfButtons) has had exactly one complete framed write:
\* its packets on the wire are pages 0, 1, .. of one image, once.
C25_ClearWritesEveryButtonOnce ==
  (api = "ClearButtons" /\ wpc = "returned") =>
    \A b \in 0..(d.numberOfButtons - 1) :
      PagesOf(b) = [j \in 1..PacketsOf(imgLen) |-> j - 1]

(***************************************************************************)
(* The remapped-button specification: a device opened with a remap table,  *)
(* its decoder reading button reports, a keep-alive report whose reply     *)
(* fails, and read errors, while time passes.                              *)
(***************************************************************************)
\* The reports in which the first and the last button are each up or down.
EndButtonReports(dt) ==
  { << 1 >> \o Zeros(dt.buttonReadOffset - 1)
           \o [k \in 1..dt.numberOfButtons |-> IF (k - 1) \in downs THEN 1 ELSE 0]
    : downs \in SUBSET {0, dt.numberOfButtons - 1} }

InitMapped ==
  /\ dev \in DecoderDevices
  /\ WriteIdle
  /\ DecodeStart
  /\ SessionLocal
  /\ OneListenerEach
  /\ Task2Idle
  /\ opc = "opened"
  /\ serialNumber = << >>
  /\ registry = knownTypes
  /\ ro = RawOpenIdle
  /\ features = << >>
  /\ started = 1
  /\ brightnessBuf = ExactBuf(d.brightnessPacket)
  /\ buttonMap \in ButtonMaps

NextMapped ==
  \/ \E r \in EndButtonReports(d) : ReadReport(r, 0, TRUE)
  \/ wire = << >> /\ ReadReport(KeepAliveFrame, 0, FALSE)
  \/ ReadError
  \/ Tick

SpecMapped == InitMapped /\ [][NextMapped]_vars

\* C26: every press or release event sent carries either the logical index of
\* the wire button it was decoded from, a number in [0, numberOfButtons), or
\* -1, and -1 only where it reports a failure of the transport.
C26_LogicalIndexInRange ==
  \A k \in 1..Len(events) :
    events[k].cat \in {"press", "release"} =>
      \/ events[k].idx = -1 /\ events[k].arg = << "err" >>
      \/ /\ events[k].idx \in 0..(d.numberOfButtons - 1)
         /\ events[k].arg = << >>
         /\ events[k].src \in 0..(d.numberOfButtons - 1)
         /\ events[k].idx = IF events[k].src \in DOMAIN buttonMap
                              THEN buttonMap[events[k].src] ELSE events[k].src

\* One report has sent a press of a remapped button (wire 0, logical 1) and a
\* press of the last button.
C26_Witness ==
  /\ \E k \in 1..Len(events) :
       events[k].cat = "press" /\ events[k].src = 0 /\ events[k].idx = 1
  /\ \E k \in 1..Len(events) :
       events[k].cat = "press" /\ events[k].idx = d.numberOfButtons - 1

(***************************************************************************)
(* The sub-protocol specification: an extended descriptor, its decoder     *)
(* reading reports of every selector while time passes, until the debounce *)
(* window of the presses has gone by.                                      *)
(***************************************************************************)
ExtendedDevices == {plusName, studioName}

\* data[1] of the reports read: the selectors the switch names, and another.
Selectors == {0, 1, 2, 3, 4, 10}

\* data[4]: the touch and encoder sub-selectors, and others; it is also the
\* state of button 0.
SubSelectors == {0, 1, 2, 3, 4}

\* Event reports: data[2:4] a length of 2, data[5] (1 under selector 3) the
\* state of encoder 0 or its rotation, data[6:14] four coordinates.
SelectorReports ==
  { << 1, sel, 2, 0, b4, IF sel = 3 THEN 1 ELSE 0, 5, 0, 7, 0, 9, 0, 11, 0 >> :
      sel \in Selectors, b4 \in SubSelectors }

InitSelector ==
  /\ dev \in ExtendedDevices
  /\ WriteIdle
  /\ DecodeStart
  /\ SessionLocal
  /\ OneListenerEach
  /\ Task2Idle
  /\ OpenDone

NextSelector ==
  \/ \E r \in SelectorReports : Byte(r, 1) # 10 /\ ReadReport(r, 0, TRUE)
  \/ \E r \in SelectorReports, writeOk \in BOOLEAN :
       Byte(r, 1) = 10 /\ wire = << >> /\ ReadReport(r, 0, writeOk)
  \/ now <= DebounceMs /\ Tick

SpecSelector == InitSelector /\ [][NextSelector]_vars

\* The categories of the events in es.
Categories(es) == { es[k].cat : k \in 1..Len(es) }

\* What a report r may produce but for selector 0x0a: under 2 one touch event
\* as data[4] says, under 3 encoder events, under 4 an NFC event, under 0
\* presses and releases of buttons, under any other selector nothing.
SelectorEvents(r, es) ==
  CASE Byte(r, 1) = 2 ->
         CASE Byte(r, 4) = 1 ->
                Len(es) = 1 /\ es[1].cat = "touchPush" /\ es[1].val = 0
           [] Byte(r, 4) = 2 ->
                Len(es) = 1 /\ es[1].cat = "touchPush" /\ es[1].val = 1
           [] Byte(r, 4) = 3 ->
                Len(es) = 1 /\ es[1].cat = "touchSwipe"
           [] OTHER -> es = << >>
    [] Byte(r, 1) = 3 ->
         \/ Categories(es) \subseteq {"encoderPush"}
         \/ Categories(es) \subseteq {"encoderRotate"}
    [] Byte(r, 1) = 4 -> Len(es) <= 1 /\ Categories(es) \subseteq {"nfc"}
    [] Byte(r, 1) = 0 ->
         /\ Categories(es) \subseteq {"press", "release"}
         /\ \A k \in 1..Len(es) : es[k].idx >= 0
    [] OTHER -> es = << >>

\* C27 (as claimed): on an extended descriptor a report with data[0] = 1 and
\* selector 0x0a produces the keep-alive reply and nothing else; under any
\* other selector it produces no reply and only the events of that selector.
C27_SelectorAlone ==
  [][(lastStep' = "report" /\ Byte(data', 0) = 1) =>
       IF Byte(data', 1) = 10
         THEN wire' = Append(wire, KeepAliveReply) /\ events' = << >>
         ELSE wire' = wire /\ SelectorEvents(data', events')]_vars

\* C27 (amended): as above, but a report of selector 0x0a whose reply cannot
\* be written also produces the disconnect event.
C27_SelectorAloneButDisconnect ==
  [][(lastStep' = "report" /\ Byte(data', 0) = 1) =>
       IF Byte(data', 1) = 10
         THEN /\ wire' = Append(wire, KeepAliveReply)
              /\ \/ events' = << >>
                 \/ Len(events') = 1 /\ IsDisconnect(events'[1])
         ELSE wire' = wire /\ SelectorEvents(data', events')]_vars

\* A touch report whose data[4] (1) would be a press of button 0 under
\* selector 0 has sent one tap, while button 0 has not been pressed.
C27_Witness ==
  /\ lastStep = "report"
  /\ Byte(data, 1) = 2
  /\ Byte(data, 4) = 1
  /\ now > DebounceMs
  /\ ~buttonMask[0]
  /\ Len(events) = 1
  /\ events[1].cat = "touchPush"

(***************************************************************************)
(* The length-field specification: OpenTCP reading replies of every length *)
(* field and size, then the decoder reading NFC reports of every length    *)
(* field while time passes.                                                *)
(***************************************************************************)
\* The n bytes conn.Read returned: a serial reply with length field len, the
\* bytes after the header "A" as far as len counts them.
ReplyOf(len, n) ==
  [k \in 1..n |-> CASE k = 1 -> 3
                    [] k = 2 -> 132
                    [] k = 3 -> Hi(len)
                    [] k = 4 -> Lo(len)
                    [] OTHER -> IF k <= 4 + len THEN 65 ELSE 0]

\* Length fields: 0..MaxSerial, and those whose sum with 4 leaves 16 bits.
WrappingLens == {65532, 65535}
ReplyLens == (0..MaxSerial) \cup WrappingLens

\* What conn.Read may return for a reply of length field len: the header and
\* the len bytes alone, one byte more, or a whole frame.
ReplySizes(len) ==
  IF len \in WrappingLens
    THEN {4, ReportBufferLen}
    ELSE {4 + len, 5 + len, ReportBufferLen}

\* Length fields of NFC reports: short ones, around what the buffer holds from
\* offset 4, and those whose sum with 4 leaves 16 bits.
NfcLens == {0, 2, ReportBufferLen - 5, ReportBufferLen - 4, 65531} \cup WrappingLens

\* An NFC report with length field len, its tag bytes "A".
NfcReport(len) ==
  << 1, 4, Lo(len), Hi(len) >> \o [k \in 1..Min(len, ReportBufferLen - 4) |-> 65]

InitLength ==
  /\ dev = studioName
  /\ registry = knownTypes
  /\ WriteIdle
  /\ DecoderFresh
  /\ OpenNotStarted
  /\ OneListenerEach
  /\ Task2Idle

NextLength ==
  \/ Dial(TRUE)
  \/ WriteRequest(TRUE)
  \/ \E len \in ReplyLens : \E n \in ReplySizes(len) : ReadReply(ReplyOf(len, n), n)
  \/ ReadReplyError
  \/ AdoptDescriptor
  \/ \E len \in NfcLens : ReadReport(NfcReport(len), 0, TRUE)
  \/ Tick

SpecLength == InitLength /\ [][NextLength]_vars

\* C28: a reply 03 84 of n bytes with length field L and n >= 4 + L, L = 0
\* and n = 4 + L included, ends the read loop and resolves the serial to the
\* bytes at offsets [4, 4 + L).
C28_HandshakeCompletes ==
  (/\ lastStep = "reply"
   /\ Byte(data, 0) = 3
   /\ Byte(data, 1) = 132
   /\ Len(data) >= 4 + ReplyLength) =>
      /\ serialNumber = SubSeq(data, 5, 4 + ReplyLength)
      /\ opc = "lookup"

\* The tag bytes of the NFC report last read, should the buffer hold them.
NfcLength == LittleEndian16(Byte(data, 2), Byte(data, 3))

\* C29: for every 16-bit length field L, in a handshake reply and in an NFC
\* report, the parser takes no slice outside the buffer: it extracts the
\* bytes at [4, 4 + L) where the buffer holds them, or nothing.
C29_LengthFieldSafe ==
  /\ opc # "panicked"
  /\ dpc # "panicked"
  /\ (lastStep = "reply" /\ Byte(data, 0) = 3 /\ Byte(data, 1) = 132) =>
       \/ serialNumber = << >>
       \/ /\ 4 + ReplyLength <= ReportBufferLen
          /\ serialNumber = [k \in 1..ReplyLength |-> Byte(data, 3 + k)]
  /\ (lastStep = "report" /\ Byte(data, 1) = 4) =>
       \/ events = << >>
       \/ /\ 4 + NfcLength <= ReportBufferLen
          /\ Len(events) = 1
          /\ events[1].cat = "nfc"
          /\ events[1].arg = [k \in 1..NfcLength |-> Byte(data, 3 + k)]

(***************************************************************************)
(* The encoder-press specification: a Plus decoder reading encoder press   *)
(* reports, encoder rotate reports and button reports while time passes.   *)
(***************************************************************************)
\* The encoder press reports (data[1] = 3, data[4] = 0) in which the first
\* and the last encoder are each up or down.
EncoderPressReports ==
  { << 1, 3, 0, 0, 0 >>
      \o [k \in 1..numberOfEncoders |-> IF (k - 1) \in downs THEN 1 ELSE 0]
    : downs \in SUBSET {0, numberOfEncoders - 1} }

\* A rotate report with the same bytes: encoders 0 and 3 turned by +1.
EncoderTurnReport == << 1, 3, 0, 0, 1, 1, 0, 0, 1 >>

\* Button reports (data[1] = 0): button 0 up, and down.
FirstButtonReports == { << 1, 0, 0, 0, 0 >>, << 1, 0, 0, 0, 1 >> }

InitEncoder ==
  /\ dev = plusName
  /\ WriteIdle
  /\ DecodeStart
  /\ SessionLocal
  /\ OneListenerEach
  /\ Task2Idle
  /\ OpenDone

NextEncoder ==
  \/ \E r \in EncoderPressReports \cup {EncoderTurnReport} \cup FirstButtonReports :
       ReadReport(r, 0, TRUE)
  \/ Tick

SpecEncoder == InitEncoder /\ [][NextEncoder]_vars

\* The encoderPush events of encoder i in es.
PushesOf(i, es) == SelectSeq(es, LAMBDA e : e.cat = "encoderPush" /\ e.idx = i)

\* Report r is an encoder press report.
IsEncoderPressReport(r) == Byte(r, 0) = 1 /\ Byte(r, 1) = 3 /\ Byte(r, 4) = 0

\* C30: a report sends at most one push event per encoder: pressed only
\* while the encoder's latch is clear and more than 100 ms after the time
\* stamped at its last press, setting the latch and stamping the time;
\* released only while the latch is set, clearing it; without an event the
\* latch and the stamp stay.  The latch is thus set exactly after a pressed
\* event and clear at the start and after a released event, so each encoder's
\* events alternate pressed, released from pressed on.  Only an encoder
\* press report sends push events or touches the encoders' state, and it
\* leaves the buttons' state alone.
C30_EncoderPressLatched ==
  [][lastStep' = "report" =>
       /\ \A i \in 0..(numberOfEncoders - 1) :
            LET mine == PushesOf(i, events')
            IN  /\ Len(mine) <= 1
                /\ (Len(mine) = 1 /\ mine[1].val = 1) =>
                     /\ ~encoderButtonMask[i]
                     /\ mine[1].at > encoderButtonTime[i] + DebounceMs
                     /\ encoderButtonMask'[i]
                     /\ encoderButtonTime'[i] >= mine[1].at
                /\ (Len(mine) = 1 /\ mine[1].val = 0) =>
                     /\ encoderButtonMask[i]
                     /\ ~encoderButtonMask'[i]
                     /\ encoderButtonTime'[i] = encoderButtonTime[i]
                /\ Len(mine) = 0 =>
                     /\ encoderButtonMask'[i] = encoderButtonMask[i]
                     /\ encoderButtonTime'[i] = encoderButtonTime[i]
       /\ IF IsEncoderPressReport(data')
            THEN UNCHANGED << buttonMask, buttonTime >>
            ELSE /\ UNCHANGED << encoderButtonMask, encoderButtonTime >>
                 /\ \A k \in 1..Len(events') : events'[k].cat # "encoderPush"]_vars

\* Encoder 0 has been released (its latch is clear, its stamp is of a press
\* sent) while encoder 3 and button 0 are held.
C30_Witness ==
  /\ lastStep = "report"
  /\ Len(PushesOf(0, events)) = 1
  /\ PushesOf(0, events)[1].val = 0
  /\ encoderButtonTime[0] > DebounceMs
  /\ encoderButtonMask[numberOfEncoders - 1]
  /\ buttonMask[0]

(***************************************************************************)
(* The dispatch specification: a legacy and an extended decoder reading    *)
(* reports of every first byte and selector while time passes, until the   *)
(* debounce window of the presses has gone by.                             *)
(***************************************************************************)
\* data[1] of the reports read: buttons, touch, encoders, keep-alive.
DispatchSelectors == {0, 2, 3, 10}

\* Reports << data[0], data[1], 0, 0, data[4], 1 >>: data[4] is the state of
\* button 0 and the touch and encoder sub-selector, data[5] the state of
\* button 1 and of encoder 0.
DispatchReports ==
  { << b0, sel, 0, 0, b4, 1 >> : b0 \in FirstBytes, sel \in DispatchSelectors,
                                  b4 \in {0, 1} }

InitDispatch ==
  /\ dev \in DecoderDevices
  /\ WriteIdle
  /\ DecodeStart
  /\ SessionLocal
  /\ OneListenerEach
  /\ Task2Idle
  /\ OpenDone

NextDispatch ==
  \/ \E r \in DispatchReports : Byte(r, 1) # 10 /\ ReadReport(r, 0, TRUE)
  \/ \E r \in DispatchReports, writeOk \in BOOLEAN :
       Byte(r, 1) = 10 /\ wire = << >> /\ ReadReport(r, 0, writeOk)
  \/ now <= DebounceMs /\ Tick

SpecDispatch == InitDispatch /\ [][NextDispatch]_vars

\* An extended-family report with data[0] # 1 sends no event, writes nothing
\* and changes no decoder state.
ExtendedNonEventIgnored ==
  (IsExtended(d) /\ Byte(data', 0) # 1) =>
    /\ events' = << >>
    /\ wire' = wire
    /\ UNCHANGED << dpc, now, buttonMask, buttonTime, encoderButtonMask,
                    encoderButtonTime, lastIncomingDataTime >>

\* C31 (as claimed): a report that is not routed to the button path (data[0]
\* = 1, and data[1] = 0 on an extended descriptor) leaves the buttons'
\* latches and timers and sends no press or release event; an extended-family
\* report with data[0] # 1 sends no event, writes nothing and changes no
\* decoder state.
C31_OnlyButtonPathTouchesButtons ==
  [][lastStep' = "report" =>
       /\ ~IsButtonReport(d, data') =>
            /\ UNCHANGED << buttonMask, buttonTime >>
            /\ \A k \in 1..Len(events') : events'[k].cat \notin {"press", "release"}
       /\ ExtendedNonEventIgnored]_vars

\* C31 (amended): as above, but for the disconnect event a keep-alive report
\* sends when its reply cannot be written.
C31_OnlyButtonPathButDisconnect ==
  [][lastStep' = "report" =>
       /\ ~IsButtonReport(d, data') =>
            /\ UNCHANGED << buttonMask, buttonTime >>
            /\ \A k \in 1..Len(events') :
                 events'[k].cat \in {"press", "release"} =>
                   /\ IsDisconnect(events'[k])
                   /\ Byte(data', 0) = 1
                   /\ Byte(data', 1) = 10
       /\ ExtendedNonEventIgnored]_vars

\* On the extended descriptor, with button 0 latched and the debounce window
\* of button 1 elapsed, a report with data[0] = 2 whose bytes show button 0
\* up and button 1 down has been read: nothing was sent.
C31_Witness ==
  /\ lastStep = "report"
  /\ IsExtended(d)
  /\ Byte(data, 0) = 2
  /\ Byte(data, 1) = 0
  /\ Byte(data, 4) = 0
  /\ buttonMask[0]
  /\ now > DebounceMs
  /\ events = << >>

(***************************************************************************)
(* The round-trip specification: a device opened with a remap table, its   *)
(* decoder reading button reports while time passes, until the debounce    *)
(* window has gone by, and a caller that writes an image to the index a    *)
(* press event carried.                                                    *)
(***************************************************************************)
\* A table with an entry for every wire button: buttons 0 and 1 swapped.
TotalMap(dt) ==
  [i \in 0..(dt.numberOfButtons - 1) |-> IF i = 0 THEN 1 ELSE IF i = 1 THEN 0 ELSE i]

\* The reports in which one of the first three buttons is down, or none.
OneDownReports(dt) ==
  { << 1 >> \o Zeros(dt.buttonReadOffset - 1)
           \o [k \in 1..dt.numberOfButtons |-> IF k - 1 = down THEN 1 ELSE 0]
    : down \in -1..2 }

InitRoundTrip ==
  /\ dev \in DecoderDevices
  /\ WriteIdle
  /\ DecodeStart
  /\ SessionLocal
  /\ OneListenerEach
  /\ Task2Idle
  /\ opc = "opened"
  /\ serialNumber = << >>
  /\ registry = knownTypes
  /\ ro = RawOpenIdle
  /\ features = << >>
  /\ started = 1
  /\ brightnessBuf = ExactBuf(d.brightnessPacket)
  /\ buttonMap \in ButtonMaps \cup {TotalMap(d)}

NextRoundTrip ==
  \/ \E r \in OneDownReports(d) : CanCall /\ ReadReport(r, 0, TRUE)
  \/ CanCall /\ now <= DebounceMs /\ Tick
  \/ \E k \in 1..Len(events) :
       /\ events[k].cat = "press"
       /\ WriteRawImageToButton(events[k].idx, 1)
  \/ rawWriteToButton
  \/ ReturnNil

SpecRoundTrip == InitRoundTrip /\ [][NextRoundTrip]_vars

\* C32: an image written to the index a press event carried goes to the wire
\* button the press was decoded from, whatever the remap table, and the
\* remap of that index has one outcome only.
C32_RemapRoundTrip ==
  (api = "WriteRawImageToButton" /\ wpc # "idle") =>
    /\ \A k \in 1..Len(events) :
         (events[k].cat = "press" /\ events[k].idx = argIndex) =>
           btnIndex = events[k].src
    /\ Cardinality(mapButtonIn(deviceType, argIndex)) = 1

(***************************************************************************)
(* The chunking specification: the half-chunk descriptor, a descriptor     *)
(* without the rule, one with an area header and one with no packet        *)
(* capacity; one caller writing a button image or an area image.           *)
(***************************************************************************)
QuirkDevices == {originalName, mk2Name, plusName, pedalName}

\* packetCapacity - len(header) of a button write.
payloadCapacity == d.imagePayloadPerPage - Len(imageHeaderFunc(d, 0, 0, 0))

\* Payload lengths: one and two bytes, and around 1..MaxPages+1 full chunks.
QuirkLens ==
  { n \in {1, 2} \cup { payloadCapacity * p + s : p \in 1..(MaxPages + 1),
                                                  s \in (0 - MaxSlack)..MaxSlack }
    : n >= 1 }

InitQuirk ==
  /\ dev \in QuirkDevices
  /\ WriteIdle
  /\ DecodeStart
  /\ SessionLocal
  /\ OneListenerEach
  /\ Task2Idle
  /\ OpenDone

NextQuirk ==
  \/ \E n \in QuirkLens : WriteRawImageToButton(0, n)
  \/ \E n \in QuirkLens : d.areaHeader /\ WriteRawImageToAreaUnscaled(0, n)
  \/ rawWriteToButton
  \/ rawWriteToArea
  \/ ReturnNil

SpecQuirk == InitQuirk /\ [][NextQuirk]_vars

\* The chunk bytes of the first k packets on the wire, in the order sent.
RECURSIVE Carried(_)
Carried(k) ==
  IF k = 0 THEN << >>
  ELSE Carried(k - 1)
         \o SubSeq(wire[k], chunks[k].headerLength + 1,
                   chunks[k].headerLength + chunks[k].thisLength)

\* A framed write is inside its loop or has left it.
InFramedWrite ==
  /\ api \in {"WriteRawImageToButton", "WriteRawImageToAreaUnscaled"}
  /\ \/ wpc \in {"button", "area"}
     \/ wpc = "returned" /\ result \in {"ok", "panic"}

\* C33: in a button or area write on any descriptor, the chunk bytes of the
\* packets sent so far are the payload's first bytesSent bytes in order, every
\* byte behind a packet's chunk is zero, bytesSent + bytesRemaining is the
\* payload's length before and after every packet, and the write returns with
\* the whole payload sent.
C33_ChunksReproducePayload ==
  InFramedWrite =>
    /\ Carried(Len(wire)) = SubSeq(rawImage, 1, bytesSent)
    /\ \A k \in 1..Len(wire) :
         \A j \in (chunks[k].headerLength + chunks[k].thisLength + 1)..Len(wire[k]) :
           wire[k][j] = 0
    /\ bytesSent + bytesRemaining = imgLen
    /\ wpc = "returned" => (result = "ok" /\ bytesSent = imgLen)

\* C34: a button or area write never has a negative bytesRemaining, sends no
\* more packets than the payload has bytes, and ends by returning with
\* bytesRemaining exactly 0.
C34_WriteTerminates ==
  (api \in {"WriteRawImageToButton", "WriteRawImageToAreaUnscaled"} /\ wpc # "idle") =>
    /\ bytesRemaining >= 0
    /\ Len(wire) <= imgLen
    /\ wpc = "returned" => (result # "panic" /\ bytesRemaining = 0)
    /\ wpc \in {"button", "area"} =>
         (ENABLED rawWriteToButton \/ ENABLED rawWriteToArea \/ ENABLED ReturnNil)

\* C35: on the half-chunk descriptor a packet sent while payloadCapacity <
\* bytesRemaining carries half of payloadCapacity, every packet is
\* packetCapacity bytes and no chunk exceeds payloadCapacity; on every other
\* descriptor every chunk but the last is payloadCapacity bytes.
C35_HalfChunkOnlyOriginal ==
  (api = "WriteRawImageToButton" /\ InFramedWrite) =>
    /\ result # "panic"
    /\ \A k \in 1..Len(wire) :
         /\ Len(wire[k]) = d.imagePayloadPerPage
         /\ chunks[k].thisLength <= payloadCapacity
         /\ payloadCapacity < chunks[k].bytesRemaining =>
              chunks[k].thisLength = IF d.name = originalName
                                       THEN payloadCapacity \div 2
                                       ELSE payloadCapacity


(***************************************************************************)
(* The late-press specification: a decoder reading the reports of two      *)
(* buttons while time passes beyond the debounce window.                   *)
(***************************************************************************)
\* The reports in which each of the first two buttons is up or down.
TwoButtonReports(dt) ==
  { << 1 >> \o Zeros(dt.buttonReadOffset - 1) \o keys : keys \in [1..2 -> {0, 1}] }

InitLate ==
  /\ dev \in DecoderDevices
  /\ WriteIdle
  /\ DecodeStart
  /\ SessionLocal
  /\ OneListenerEach
  /\ Task2Idle
  /\ OpenDone

NextLate ==
  \/ \E r \in TwoButtonReports(d), hd \in HandlerDelays : ReadReport(r, hd, TRUE)
  \/ now <= DebounceMs /\ Tick

SpecLate == InitLate /\ [][NextLate]_vars

\* Whether the events es hold a press decoded from wire button i.
PressFrom(es, i) == \E k \in 1..Len(es) : es[k].cat = "press" /\ es[k].src = i

\* C36: a button reported down whose press the debounce window suppressed
\* (down, not latched) and which a later report, whatever button caused it,
\* still shows down once the window has expired, gets its press at that
\* report; a button that stays down with its latch set gets no further press.
C36_LatePress ==
  [][(lastStep' = "report" /\ IsButtonReport(d, data')) =>
       \A i \in Keys :
         /\ (/\ hist[i].down
             /\ ~buttonMask[i]
             /\ Byte(data', d.buttonReadOffset + i) = 1
             /\ DebounceElapsed(now, buttonTime[i])) =>
              /\ PressFrom(events', i)
              /\ buttonMask'[i]
         /\ (/\ hist[i].down
             /\ buttonMask[i]
             /\ Byte(data', d.buttonReadOffset + i) = 1) =>
              /\ ~PressFrom(events', i)
              /\ buttonMask'[i]]_vars

\* Button 0 went down once inside the window without a press, and the report
\* read last, in which button 1 is down too, sent its press.
C36_Witness ==
  /\ lastStep = "report"
  /\ hist[0].downs = 1
  /\ hist[0].down
  /\ ~hist[0].pressAtDown
  /\ hist[0].presses = 1
  /\ PressFrom(events, 0)
  /\ Byte(data, d.buttonReadOffset + 1) = 1
  /\ buttonMask[0]


(***************************************************************************)
(* Who closes the transport of a network session, and how often.           *)
(***************************************************************************)
\* A step in which d.fd.Close() is called: Device.Close by the caller, or the
\* watchdog's call, after which the goroutine returns.
CallerCloses == lastStep' = "close"
WatchdogCloses == watchdog = "polling" /\ watchdog' = "returned"

\* C37 (as claimed): on a network session d.fd.Close() is called at most
\* once, whether the caller or the watchdog calls it first: neither calls it
\* on a transport that the other has closed already.
C37_CloseAtMostOnce ==
  [][(isIP /\ (CallerCloses \/ WatchdogCloses)) => fd = "open"]_vars


(***************************************************************************)
(* The blocked-decoder specification: a network session of a live device,  *)
(* which delivers a keep-alive frame to the transport every second, and a  *)
(* handler that may keep the decoder for any time.                         *)
(***************************************************************************)
\* for _, f := range d.buttonPressListeners { f(...) }: a handler called for
\* the report read last has not returned.  The decoder calls the handlers
\* synchronously, so it stands inside the call and reads nothing; what the
\* loop does after the handler's return touches its own locals only.
HandlerBlocks ==
  /\ dpc = "running"
  /\ lastStep = "report"
  /\ delivered # << >>
  /\ dpc' = "inHandler"
  /\ lastStep' = "block"
  /\ UNCHANGED << dev, writeVars, now, buttonMask, buttonTime, encoderButtonMask,
                  encoderButtonTime, lastIncomingDataTime, data, events, hist,
                  sessionVars, listenVars, task2, openVars >>

\* The handler returns and the decoder goes back to its read.
HandlerReturns ==
  /\ dpc = "inHandler"
  /\ dpc' = "running"
  /\ lastStep' = "return"
  /\ UNCHANGED << dev, writeVars, now, buttonMask, buttonTime, encoderButtonMask,
                  encoderButtonTime, lastIncomingDataTime, data, events, hist,
                  sessionVars, listenVars, task2, openVars >>

InitBlocked ==
  /\ dev = studioName
  /\ WriteIdle
  /\ DecodeStart
  /\ SessionNetwork
  /\ OneListenerEach
  /\ Task2Idle
  /\ OpenDone

\* The keep-alive of the current second waits in the transport until the
\* decoder reads it; a decoder that is not held by a handler has read it
\* before the watchdog's next poll.
NextBlocked ==
  \/ lastIncomingDataTime < now /\ ReadReport(KeepAliveFrame, 0, TRUE)
  \/ \E r \in FirstButtonReports : ReadReport(r, 0, TRUE)
  \/ HandlerBlocks
  \/ HandlerReturns
  \/ (dpc = "inHandler" \/ lastIncomingDataTime = now) /\ WatchdogPoll
  \/ ReadClosed

SpecBlocked == InitBlocked /\ [][NextBlocked]_vars

\* C38 (as claimed): the watchdog closes the connection only if the device
\* delivered no keep-alive frame to the transport during the preceding 5 s: in
\* a session whose device delivers one every second the watchdog never closes,
\* however long a handler holds the decoder.
C38_LiveDeviceStaysConnected == closer # "watchdog"


(***************************************************************************)
(* The failing-transport specification: a framed write during which the    *)
(* transport is closed by another task, so that every later write fails.   *)
(***************************************************************************)
InitFailing ==
  /\ dev \in {mk2Name, plusName}
  /\ WriteIdle
  /\ DecodeStart
  /\ SessionLocal
  /\ OneListenerEach
  /\ Task2Idle
  /\ OpenDone

NextFailing ==
  \/ \E n \in QuirkLens : WriteRawImageToButton(0, n)
  \/ \E n \in QuirkLens : d.areaHeader /\ WriteRawImageToAreaUnscaled(0, n)
  \/ rawWriteToButton
  \/ rawWriteToArea
  \/ ReturnNil
  \/ Close

SpecFailing == InitFailing /\ [][NextFailing]_vars

\* Whether the transport refused one of the packets written so far.
SomeWriteFailed == \E k \in 1..Len(chunks) : chunks[k].writeFailed

\* C39: a framed write in which the transport refuses a packet goes on: while
\* bytes remain its next packet can be written, and when it has returned it
\* has written every packet, each starting where the one before ended and up
\* to the payload's end, in page order, and it has returned nil.
C39_FailedWriteGoesOn ==
  SomeWriteFailed =>
    /\ wpc \in {"button", "area"} =>
         ENABLED (rawWriteToButton \/ rawWriteToArea \/ ReturnNil)
    /\ \A k \in 1..Len(chunks) :
         chunks[k].bytesSent = IF k = 1 THEN 0
                               ELSE chunks[k - 1].bytesSent + chunks[k - 1].thisLength
    /\ api = "WriteRawImageToButton" => PagesOf(0) = [j \in 1..Len(wire) |-> j - 1]
    /\ wpc = "returned" =>
         /\ result = "ok"
         /\ chunks[Len(chunks)].bytesSent + chunks[Len(chunks)].thisLength = imgLen
         /\ Carried(Len(chunks)) = rawImage

\* A write of three packets or more has returned nil; the transport took its
\* first packet and refused the second.
C39_Witness ==
  /\ api \in {"WriteRawImageToButton", "WriteRawImageToAreaUnscaled"}
  /\ wpc = "returned"
  /\ result = "ok"
  /\ Len(chunks) >= 3
  /\ ~chunks[1].writeFailed
  /\ chunks[2].writeFailed
  /\ chunks[Len(chunks)].writeFailed

============================================================================
